---- MODULE Spec2Model ----
(***************************************************************************)
(* Model of the KSK call scheduler (src/engine.py, src/app.py).           *)
(*                                                                         *)
(* generate_ortools_schedule builds a CP-SAT model over two integer        *)
(* variables per block day, call[d] and backup[d], and returns one         *)
(* assignment the solver accepts.  The model below keeps every hard        *)
(* constraint the function posts, one operator per constraint block, and   *)
(* lets Solve return any assignment that satisfies all of them: the        *)
(* objective (fairness spreads, soft-constraint penalties, bonuses) only   *)
(* selects among those assignments, and every auxiliary variable the       *)
(* objective needs is reified, so it removes none when no previous-block   *)
(* totals are supplied, as is the case for all inputs explored here.       *)
(*                                                                         *)
(* Dates are integers counted from the block start: block day d has date   *)
(* d (0-based, as the index d of `dates`), dates before the block are      *)
(* negative.  Weekdays follow Python: Monday = 0 ... Sunday = 6.           *)
(* Resident indices are positions in `residents`, 1-based here where the   *)
(* code is 0-based.                                                        *)
(***************************************************************************)
EXTENDS Integers, Sequences, FiniteSets, TLC

VARIABLES
    residents,        \* roster names, in roster order
    pgy_levels,       \* PGY level of each roster position
    start_wd,         \* weekday of start_date
    n_days,           \* number of days from start_date to end_date (0: start > end)
    holidays,         \* list of [date, call, backup]
    hard_constraints, \* list of [resident, start, end] (resident -> windows)
    block_transition, \* list of [date, call, backup]; "" = field not filled in
    pgy4_call_cap,    \* NoCap or a number
    rotation_periods, \* list of [switch_date, rotation_name]
    pc,               \* "ready" before the call, "done" after it returned
    status,           \* which return of generate_ortools_schedule was taken
    schedule,         \* returned rows [Date, Call, Backup]
    result,           \* shape of the returned value and its parts besides the rows
    solves,           \* number of solver.Solve calls made
    intern_cap,       \* NoCap or a number
    intern_status,    \* which way optimize_intern_assignments ended
    intern_col,       \* the Intern column it returned: a name or "None" per row
    soft_constraints, \* list of [resident, start, end, priority]
    sup_status,       \* position of assign_supervisors: "none", "running", "done"
    sup_row,          \* number of rows its loop has been through
    sup_col,          \* the Supervisor column: a name or "None" per row
    supervisor_counts,\* supervisor assignments made so far, per supervisor position
    prev_call,        \* Call value of the row before the current one, "None" at first
    previous_totals,  \* list of [resident, total]: a row of previous_block_data
    parse_val,        \* the value parse_date is applied to
    parse_result      \* what parse_date returned or raised

vars == <<residents, pgy_levels, start_wd, n_days, holidays, hard_constraints,
          block_transition, pgy4_call_cap, rotation_periods, pc, status, schedule,
          result, solves, intern_cap, intern_status, intern_col,
          soft_constraints, sup_status, sup_row, sup_col, supervisor_counts,
          prev_call, previous_totals, parse_val, parse_result>>

inputs == <<residents, pgy_levels, start_wd, n_days, holidays, hard_constraints,
            block_transition, pgy4_call_cap, rotation_periods, previous_totals>>

internVars == <<intern_cap, intern_status, intern_col>>

supVars == <<soft_constraints, sup_status, sup_row, sup_col, supervisor_counts, prev_call>>

parseVars == <<parse_val, parse_result>>

NotParsed == [ok |-> FALSE, error |-> "none"]

\* parse_date has not been called
ParseNotStarted ==
    /\ parse_val = [kind |-> "none"]
    /\ parse_result = NotParsed

\* assign_supervisors has not been called
SupervisorNotStarted ==
    /\ sup_status = "none"
    /\ sup_row = 0
    /\ sup_col = <<>>
    /\ supervisor_counts = <<>>
    /\ prev_call = "None"

----------------------------------------------------------------------------
(* Bounds of the explored input space *)

MaxDays == 5
MaxHolidays == 1
MaxWindows == 1
MaxTransitions == 1
MaxCap == 1
MaxRotations == 2
ExampleDays == 28
MaxInternBlock == 6
MaxInternCap == 2
MaxSupDays == 3
MaxAppDays == 3
MaxParseYear == 2024
MaxPrevDays == 2
MaxPrevExcess == 3

NoCap == -1

----------------------------------------------------------------------------
(* Helpers *)

Days == 0 .. (n_days - 1)

\* dates[d].weekday()
Weekday(d) == (start_wd + d) % 7

\* str(r).strip(): the only names with surrounding blanks in the explored
\* inputs are the ones listed here
Strip(name) ==
    CASE name = "X4 " -> "X4"
      [] name = " A2" -> "A2"
      [] name = "J1 " -> "J1"
      [] name = "P3 " -> "P3"
      [] OTHER -> name

\* normalized_residents[i]
normalized_residents(i) == Strip(residents[i])

\* residents.index(name): first position holding the name
IndexOf(name) ==
    CHOOSE i \in DOMAIN residents :
        /\ residents[i] = name
        /\ \A j \in DOMAIN residents : residents[j] = name => i <= j

InRoster(name) == \E i \in DOMAIN residents : residents[i] = name

\* holiday_map = {date: h for h in holidays}: a later entry for a date
\* replaces an earlier one
HolidayDates == {holidays[i].date : i \in DOMAIN holidays}

holiday_map(day) ==
    LET last == CHOOSE i \in DOMAIN holidays :
                    /\ holidays[i].date = day
                    /\ \A j \in DOMAIN holidays : holidays[j].date = day => j <= i
    IN  holidays[last]

\* normalized_hard_constraints.get(resident, [])
normalized_hard_constraints(resident) ==
    {<<hard_constraints[i].start, hard_constraints[i].end>> :
        i \in {j \in DOMAIN hard_constraints : Strip(hard_constraints[j].resident) = resident}}

\* lines 98-111: the transition entries with date, call and backup all
\* filled in; an entry with an empty field is left out whole
transition_assignments ==
    {block_transition[i] : i \in {j \in DOMAIN block_transition :
        /\ block_transition[j].call # ""
        /\ block_transition[j].backup # ""}}

\* mutant: the table keyed with Sunday = 0 instead of Monday = 0
weekday_pgy_SundayFirst(wd) ==
    CASE wd = 0 -> {2}
      [] wd = 1 -> {3}
      [] wd = 2 -> {2}
      [] wd = 3 -> {2, 3}
      [] wd = 4 -> {3, 4}
      [] wd = 5 -> {2}
      [] wd = 6 -> {3}

weekday_pgy(wd) ==
    CASE wd = 6 -> {2}
      [] wd = 0 -> {3}
      [] wd = 1 -> {2}
      [] wd = 2 -> {2, 3}
      [] wd = 3 -> {3, 4}
      [] wd = 4 -> {2}
      [] wd = 5 -> {3}

allowed_indices(d) == {i \in DOMAIN pgy_levels : pgy_levels[i] \in weekday_pgy(Weekday(d))}

----------------------------------------------------------------------------
(* The hard constraints posted on call[d] / backup[d].  Constraints on one  *)
(* variable ("call[d] != r", allowed and forced values) narrow that         *)
(* variable's domain; the others relate the two variables of a day or the   *)
(* variables of two days.  An assignment is a pair of sequences indexed     *)
(* 1..n: call[d + 1] is the code's call[d].                                 *)

\* mutant: the buffer day before a window is not barred
HardForbidden_NoBuffer(d, r) ==
    \E w \in normalized_hard_constraints(normalized_residents(r)) :
        LET start == w[1]
            end == w[2]
        IN  start <= d /\ d <= end /\ d \notin HolidayDates

\* lines 178-198: resident r is barred from both roles of day d by one of
\* their windows (the window itself or its buffer day), holidays excepted
HardForbidden(d, r) ==
    \E w \in normalized_hard_constraints(normalized_residents(r)) :
        LET start == w[1]
            end == w[2]
            buffer_day == start - 1
        IN  \/ (start <= d /\ d <= end /\ d \notin HolidayDates)
            \/ (d = buffer_day /\ d \notin HolidayDates)

\* mutant: the call != backup constraint is not posted
CallNotBackupOK_Dropped(c, b) == TRUE

\* lines 200-202
CallNotBackupOK(c, b) == c # b

\* lines 216-220: the holiday's call resident, when on the roster, is forced
HolidayCallOK(d, r) ==
    (d \in HolidayDates /\ InRoster(holiday_map(d).call)) =>
        r = IndexOf(holiday_map(d).call)

\* mutant: the backup is forced only when both names are on the roster
HolidayBackupOK_AllOrNothing(d, r) ==
    (d \in HolidayDates /\ InRoster(holiday_map(d).call)
        /\ InRoster(holiday_map(d).backup)) =>
        r = IndexOf(holiday_map(d).backup)

\* mutant: the backup of a holiday is not forced
HolidayBackupOK_Dropped(d, r) == TRUE

\* lines 221-222: the same for the holiday's backup resident
HolidayBackupOK(d, r) ==
    (d \in HolidayDates /\ InRoster(holiday_map(d).backup)) =>
        r = IndexOf(holiday_map(d).backup)

\* lines 224-231: weekday / PGY eligibility, the same for both roles
WeekdayPgyOK(d, r) == d \notin HolidayDates => r \in allowed_indices(d)

\* lines 238-257: the previous block's call and backup residents are kept
\* off call within 3 days; the name of the entry, as it was supplied, is
\* compared with the stripped roster name
TransitionCallOK(d, r) ==
    d < 4 =>
        \A t \in transition_assignments :
            LET days_apart == d - t.date
                resident_name == normalized_residents(r)
            IN  (0 < days_apart /\ days_apart < 4) =>
                    (t.call # resident_name /\ t.backup # resident_name)

\* mutant: the previous block's call resident is not kept off backup
TransitionBackupOK_NoCallToBackup(d, r) ==
    d < 4 =>
        \A t \in transition_assignments :
            LET days_apart == d - t.date
                resident_name == normalized_residents(r)
            IN  (0 < days_apart /\ days_apart < 3) => t.backup # resident_name

\* lines 238-263: the previous block's call resident is kept off backup
\* within 3 days, its backup resident within 2 days
TransitionBackupOK(d, r) ==
    d < 4 =>
        \A t \in transition_assignments :
            LET days_apart == d - t.date
                resident_name == normalized_residents(r)
            IN  /\ (0 < days_apart /\ days_apart < 4) => t.call # resident_name
                /\ (0 < days_apart /\ days_apart < 3) => t.backup # resident_name

\* values left to call[d] by the constraints on that variable alone
CallDomain(d) ==
    {r \in DOMAIN residents :
        /\ ~HardForbidden(d, r)
        /\ HolidayCallOK(d, r)
        /\ WeekdayPgyOK(d, r)
        /\ TransitionCallOK(d, r)}

\* values left to backup[d] by the constraints on that variable alone
BackupDomain(d) ==
    {r \in DOMAIN residents :
        /\ ~HardForbidden(d, r)
        /\ HolidayBackupOK(d, r)
        /\ WeekdayPgyOK(d, r)
        /\ TransitionBackupOK(d, r)}

\* mutant: the PGY-matching constraint is not posted
PgyMatchOK_Dropped(d, c, b) == TRUE

\* lines 780-790: call and backup of one day have the same PGY level
PgyMatchOK(d, c, b) == d \notin HolidayDates => pgy_levels[c] = pgy_levels[b]

\* the (call, backup) pairs day d admits on its own
DayPairs(d) ==
    {q \in CallDomain(d) \X BackupDomain(d) :
        CallNotBackupOK(q[1], q[2]) /\ PgyMatchOK(d, q[1], q[2])}

\* mutant: offsets 1 and 2 only (range(1, 3) for range(1, 4))
Q4SpacingOK_ShortRange(call, backup, d) ==
    \A offset \in 1 .. 2 :
        LET d1 == d - offset
        IN  d1 >= 0 =>
                /\ call[d1 + 1] # call[d + 1]
                /\ call[d1 + 1] # backup[d + 1]
                /\ backup[d1 + 1] # call[d + 1]

\* mutant: pairs with a holiday day on either side are skipped
Q4SpacingOK_HolidayExempt(call, backup, d) ==
    \A offset \in 1 .. 3 :
        LET d1 == d - offset
        IN  (d1 >= 0 /\ d \notin HolidayDates /\ d1 \notin HolidayDates) =>
                /\ call[d1 + 1] # call[d + 1]
                /\ call[d1 + 1] # backup[d + 1]
                /\ backup[d1 + 1] # call[d + 1]

\* lines 265-277: Call->Call, Call->Backup, Backup->Call at least 4 days
\* apart, for every resident; d is the later day of the pair (d1, d1 + offset)
Q4SpacingOK(call, backup, d) ==
    \A offset \in 1 .. 3 :
        LET d1 == d - offset
        IN  d1 >= 0 =>
                /\ call[d1 + 1] # call[d + 1]
                /\ call[d1 + 1] # backup[d + 1]
                /\ backup[d1 + 1] # call[d + 1]

\* lines 278-284: Backup->Backup at least 3 days apart
Q3SpacingOK(call, backup, d) ==
    \A offset \in 1 .. 2 :
        LET d1 == d - offset
        IN  d1 >= 0 => backup[d1 + 1] # backup[d + 1]

\* mutant: holiday days are left out of the count
Pgy4CapOK_SkipHolidays(call) ==
    pgy4_call_cap # NoCap =>
        \A r \in DOMAIN pgy_levels :
            pgy_levels[r] = 4 =>
                Cardinality({i \in DOMAIN call :
                                call[i] = r /\ (i - 1) \notin HolidayDates}) <= pgy4_call_cap

\* lines 286-296: PGY-4 call cap, counted over all days of the assignment
Pgy4CapOK(call) ==
    pgy4_call_cap # NoCap =>
        \A r \in DOMAIN pgy_levels :
            pgy_levels[r] = 4 =>
                Cardinality({i \in DOMAIN call : call[i] = r}) <= pgy4_call_cap

\* All assignments of the first k days that the constraints among those days
\* admit.  Every constraint speaks about fixed days (the cap about a count
\* that only grows), so the assignments of k days extend those of k - 1 days.
RECURSIVE Assignments(_)
Assignments(k) ==
    IF k = 0 THEN {[call |-> <<>>, backup |-> <<>>]}
    ELSE LET pairs == DayPairs(k - 1)
         IN  UNION {
                {[call |-> Append(p.call, q[1]), backup |-> Append(p.backup, q[2])] :
                    q \in {x \in pairs :
                            LET call == Append(p.call, x[1])
                                backup == Append(p.backup, x[2])
                            IN  /\ Q4SpacingOK(call, backup, k - 1)
                                /\ Q3SpacingOK(call, backup, k - 1)
                                /\ Pgy4CapOK(call)}} :
                p \in Assignments(k - 1)}

\* lines 331-369: the weekdays a fairness count runs over
CategoryDays(cat) ==
    CASE cat = "weekday" -> {0, 1, 2, 3}
      [] cat = "friday" -> {4}
      [] cat = "saturday" -> {5}
      [] cat = "sunday" -> {6}
      [] cat = "total" -> 0 .. 6

\* lines 374, 414, 442, 470 and 499-500: the counts kept per PGY level
FairnessCategories(pgy) ==
    CASE pgy = 2 -> {"weekday", "friday", "sunday"}
      [] pgy = 3 -> {"weekday", "saturday"}
      [] pgy = 4 -> {"total"}
      [] OTHER -> {}

\* counts[idx] == sum(call_type[r]): the days of a category on which the
\* role (a sequence of roster positions) is held by r
CategoryCount(role, r, cat) ==
    Cardinality({i \in DOMAIN role :
                    role[i] = r /\ Weekday(i - 1) \in CategoryDays(cat)})

\* line 398: the room left above n_days in the domain of a cumulative count
cumulative_margin == 100

\* mutant: the cumulative counts have no upper end
PrevTotalsOK_Unbounded(a) == TRUE

\* lines 383-400 and the like: cumulative == counts[idx] + prev_total with
\* cumulative in 0 .. n_days + 100, for every count kept for a resident who
\* has a row of previous totals.  Every column of an explored row holds the
\* same number.
PrevTotalsOK(a) ==
    \A k \in DOMAIN previous_totals : \A r \in DOMAIN residents :
        residents[r] = previous_totals[k].resident =>
            \A cat \in FairnessCategories(pgy_levels[r]) :
                /\ CategoryCount(a.call, r, cat) + previous_totals[k].total
                        <= n_days + cumulative_margin
                /\ CategoryCount(a.backup, r, cat) + previous_totals[k].total
                        <= n_days + cumulative_margin

\* solver.Solve(model): the assignments CP-SAT may report
Solutions ==
    IF previous_totals = <<>> THEN Assignments(n_days)
    ELSE {a \in Assignments(n_days) : PrevTotalsOK(a)}

\* mutant: three eligible residents are asked for
TooFewEligible_Three ==
    \E d \in Days : d \notin HolidayDates /\ Cardinality(allowed_indices(d)) < 3

\* lines 224-229: some non-holiday day has fewer than two eligible residents
TooFewEligible ==
    \E d \in Days : d \notin HolidayDates /\ Cardinality(allowed_indices(d)) < 2

\* lines 803-810
Rows(a) ==
    [i \in 1 .. n_days |->
        [Date |-> i - 1, Call |-> residents[a.call[i]], Backup |-> residents[a.backup[i]]]]

----------------------------------------------------------------------------
(* Rotation ranges, golden weekends and the returned value *)

\* sorted(rotation_periods, key=lambda x: x['switch_date']): a stable sort
sorted_rotations ==
    LET n == Len(rotation_periods)
        before(j, i) ==
            \/ rotation_periods[j].switch_date < rotation_periods[i].switch_date
            \/ /\ rotation_periods[j].switch_date = rotation_periods[i].switch_date
               /\ j < i
        rank(i) == Cardinality({j \in 1 .. n : before(j, i)}) + 1
    IN  [k \in 1 .. n |-> rotation_periods[CHOOSE i \in 1 .. n : rank(i) = k]]

\* lines 75-91: one range per switch date except the last, which only ends
\* the range before it
rotation_ranges ==
    [i \in 1 .. (Len(sorted_rotations) - 1) |->
        [name |-> sorted_rotations[i].rotation_name,
         start_date |-> sorted_rotations[i].switch_date,
         end_date |-> sorted_rotations[i + 1].switch_date - 1]]

\* line 313
pgy2_indices == {r \in DOMAIN pgy_levels : pgy_levels[r] = 2}

\* lines 680-682: the Fridays of the block
Fridays == {d \in Days : Weekday(d) = 4}

\* lines 684-686: the Friday with the Saturday and the Sunday after it, as
\* far as they are days of the block
WeekendDays(fri) ==
    {fri} \cup {d \in {fri + 1} : d < n_days /\ Weekday(d) = 5}
          \cup {d \in {fri + 2} : d < n_days /\ Weekday(d) = 6}

\* lines 687-704: is_golden of resident r for the weekend of Friday fri
is_golden(a, r, fri) ==
    \A d \in WeekendDays(fri) : a.call[d + 1] # r /\ a.backup[d + 1] # r

\* lines 823-826: the first rotation range holding the date, 0 when none does
RangeOf(date) ==
    LET holding == {i \in DOMAIN rotation_ranges :
                        /\ rotation_ranges[i].start_date <= date
                        /\ date <= rotation_ranges[i].end_date}
    IN  IF holding = {} THEN 0
        ELSE CHOOSE i \in holding : \A j \in holding : i <= j

\* lines 812-833: the golden-weekend counts of assignment a, by rotation name
\* when there are rotation ranges and per resident otherwise
golden_weekends_count(a) ==
    LET names == {residents[r] : r \in pgy2_indices}
        golden == {x \in pgy2_indices \X Fridays : is_golden(a, x[1], x[2])}
    IN  IF rotation_ranges # <<>>
        THEN [kind |-> "by_rotation",
              counts |->
                [rot \in {rotation_ranges[i].name : i \in DOMAIN rotation_ranges} |->
                    [res \in names |->
                        Cardinality({x \in golden :
                            /\ residents[x[1]] = res
                            /\ RangeOf(x[2]) # 0
                            /\ rotation_ranges[RangeOf(x[2])].name = rot})]]]
        ELSE [kind |-> "flat",
              counts |-> [res \in names |->
                            Cardinality({x \in golden : residents[x[1]] = res})]]

\* nothing returned yet
NoResult == [form |-> "none", golden |-> [kind |-> "none", counts |-> <<>>],
             objective |-> "None"]

\* lines 61 and 229: return pd.DataFrame(columns=['Date', 'Call', 'Backup']),
\* a data frame on its own
DataFrameOnly == [form |-> "dataframe", golden |-> [kind |-> "none", counts |-> <<>>],
                  objective |-> "None"]

\* mutant: a zero for every resident of the roster
InfeasibleResult_AllResidents ==
    [form |-> "triple",
     golden |-> [kind |-> "flat",
                 counts |-> [res \in {residents[r] : r \in DOMAIN residents} |-> 0]],
     objective |-> "None"]

\* line 836: (empty frame, {residents[r]: 0 for r in pgy2_indices}, None)
InfeasibleResult ==
    [form |-> "triple",
     golden |-> [kind |-> "flat",
                 counts |-> [res \in {residents[r] : r \in pgy2_indices} |-> 0]],
     objective |-> "None"]

\* line 838: (rows, golden_weekends_count, final_objective_value)
SolvedResult(a) ==
    [form |-> "triple", golden |-> golden_weekends_count(a), objective |-> "value"]

----------------------------------------------------------------------------
(* Inputs *)

RosterFull == [names |-> <<"A2", "B2", "C2", "P3", "Q3", "R3", "X4", "Y4", "I1">>,
               levels |-> <<2, 2, 2, 3, 3, 3, 4, 4, 1>>]
RosterSmall == [names |-> <<"A2", "B2", "P3">>, levels |-> <<2, 2, 3>>]
RosterEmpty == [names |-> <<>>, levels |-> <<>>]
Rosters == {RosterFull, RosterSmall, RosterEmpty}

\* four PGY-2 residents: enough for a block that holds a Friday and a Sunday
RosterGolden == [names |-> <<"A2", "B2", "C2", "D2", "P3", "Q3", "X4", "Y4">>,
                 levels |-> <<2, 2, 2, 2, 3, 3, 4, 4>>]

\* two residents each of PGY-2, PGY-3 and PGY-4
RosterExample == [names |-> <<"A2", "B2", "P3", "Q3", "X4", "Y4">>,
                  levels |-> <<2, 2, 3, 3, 4, 4>>]

SeqsUpTo(S, n) == UNION {[1 .. k -> S] : k \in 0 .. n}

\* holiday entries: "Zed" is a name that is on no roster
HolidayEntries(callNames, backupNames) ==
    [date : 0 .. (MaxDays - 1), call : callNames, backup : backupNames]

\* hard-constraint windows; the key "X4 " is normalised to "X4" by the code
HardKeys == {"A2", "X4 "}
HardEntries ==
    {e \in [resident : HardKeys, start : 0 .. MaxDays, end : 0 .. MaxDays] :
        e.start <= e.end}

\* last days of the previous block; "" is a field left empty
TransitionEntries ==
    [date : (0 - 3) .. (0 - 1), call : {"A2", "P3", ""}, backup : {"A2", "P3"}]

\* a roster whose first PGY-3 name carries a trailing blank, and the
\* Saturday before a block with that resident on call, under the name the
\* roster holds
RosterBlank == [names |-> <<"A2", "B2", "P3 ", "Q3", "R3">>, levels |-> <<2, 2, 3, 3, 3>>]
TransitionBlankEntries ==
    [date : {0 - 1}, call : {"P3 "}, backup : {"Q3", ""}]

Caps == {NoCap} \cup (0 .. MaxCap)

\* rotation periods: a switch date and a name
RotationEntries == [switch_date : {0, 1}, rotation_name : {"R1", "R2"}]

\* The explored inputs, by which optional inputs are supplied.  Lists of
\* more than one entry are explored for one kind of input at a time.
PlainInputs ==
    [roster : Rosters, start_wd : 0 .. 6, n_days : 0 .. MaxDays,
     holidays : {<<>>}, hard_constraints : {<<>>}, block_transition : {<<>>},
     pgy4_call_cap : Caps,
     rotation_periods : {<<>>}]

HolidayInputs ==
    [roster : {RosterFull, RosterSmall}, start_wd : 0 .. 6, n_days : 1 .. MaxDays,
     holidays : SeqsUpTo(HolidayEntries({"A2", "X4"}, {"A2", "X4"}), MaxHolidays) \ {<<>>},
     hard_constraints : {<<>>}, block_transition : {<<>>},
     pgy4_call_cap : {NoCap},
     rotation_periods : {<<>>}]

CapHolidayInputs ==
    [roster : {RosterFull}, start_wd : 0 .. 6, n_days : 1 .. MaxDays,
     holidays : {<<h>> : h \in HolidayEntries({"X4"}, {"A2"})},
     hard_constraints : {<<>>}, block_transition : {<<>>},
     pgy4_call_cap : 0 .. MaxCap,
     rotation_periods : {<<>>}]

HardInputs ==
    [roster : {RosterFull}, start_wd : 0 .. 6, n_days : (MaxDays - 1) .. MaxDays,
     holidays : {<<>>},
     hard_constraints : SeqsUpTo(HardEntries, MaxWindows) \ {<<>>},
     block_transition : {<<>>},
     pgy4_call_cap : {NoCap},
     rotation_periods : {<<>>}]

HolidayHardInputs ==
    [roster : {RosterFull}, start_wd : 0 .. 6, n_days : {MaxDays},
     holidays : {<<h>> : h \in {x \in HolidayEntries({"A2", "X4"}, {"A2", "X4"}) :
                                    x.call # x.backup}},
     hard_constraints : {<<e>> : e \in HardEntries},
     block_transition : {<<>>},
     pgy4_call_cap : {NoCap},
     rotation_periods : {<<>>}]

UnknownNameInputs ==
    {i \in [roster : {RosterFull}, start_wd : 0 .. 6, n_days : 1 .. 2,
            holidays : {<<h>> : h \in HolidayEntries({"A2", "Zed"}, {"X4", "Zed"})},
            hard_constraints : {<<>>} \cup {<<e>> : e \in {x \in HardEntries : x.start = x.end}},
            block_transition : {<<>>},
            pgy4_call_cap : {NoCap},
     rotation_periods : {<<>>}] :
        /\ i.holidays[1].date < i.n_days
        /\ (i.holidays[1].call = "Zed" \/ i.holidays[1].backup = "Zed")
        /\ \A k \in DOMAIN i.hard_constraints : i.hard_constraints[k].start < i.n_days}

TransitionInputs ==
    [roster : {RosterFull}, start_wd : 0 .. 6, n_days : 1 .. MaxDays,
     holidays : {<<>>}, hard_constraints : {<<>>},
     block_transition : SeqsUpTo(TransitionEntries, MaxTransitions) \ {<<>>},
     pgy4_call_cap : {NoCap},
     rotation_periods : {<<>>}]

\* one or two days from a Sunday or a Monday, after a transition day that
\* names a resident as the roster does, trailing blank included
TransitionBlankInputs ==
    [roster : {RosterBlank}, start_wd : {6, 0}, n_days : 1 .. 2,
     holidays : {<<>>}, hard_constraints : {<<>>},
     block_transition : {<<t>> : t \in TransitionBlankEntries},
     pgy4_call_cap : {NoCap},
     rotation_periods : {<<>>}]

\* blocks that start on a Thursday or a Friday and end by the Sunday, with
\* rotation periods
GoldenInputs ==
    {i \in [roster : {RosterGolden}, start_wd : {3, 4}, n_days : 1 .. 4,
            holidays : {<<>>}, hard_constraints : {<<>>}, block_transition : {<<>>},
            pgy4_call_cap : {NoCap},
            rotation_periods : SeqsUpTo(RotationEntries, MaxRotations)] :
        i.start_wd + i.n_days <= 7 /\ i.start_wd + i.n_days >= 5}

\* the 28-day block of six residents, from every weekday
ExampleInputs ==
    [roster : {RosterExample}, start_wd : 0 .. 6, n_days : {ExampleDays},
     holidays : {<<>>}, hard_constraints : {<<>>}, block_transition : {<<>>},
     pgy4_call_cap : {NoCap},
     rotation_periods : {<<>>}]

Inputs ==
    PlainInputs \cup HolidayInputs \cup CapHolidayInputs \cup HardInputs
        \cup HolidayHardInputs \cup UnknownNameInputs \cup TransitionInputs
        \cup TransitionBlankInputs \cup GoldenInputs \cup ExampleInputs

Init ==
    /\ \E i \in Inputs :
        /\ residents = i.roster.names
        /\ pgy_levels = i.roster.levels
        /\ start_wd = i.start_wd
        /\ n_days = i.n_days
        /\ holidays = i.holidays
        /\ hard_constraints = i.hard_constraints
        /\ block_transition = i.block_transition
        /\ pgy4_call_cap = i.pgy4_call_cap
        /\ rotation_periods = i.rotation_periods
    /\ pc = "ready"
    /\ status = "none"
    /\ schedule = <<>>
    /\ result = NoResult
    /\ solves = 0
    /\ intern_cap = NoCap
    /\ intern_status = "none"
    /\ intern_col = <<>>
    /\ soft_constraints = <<>>
    /\ SupervisorNotStarted
    /\ previous_totals = <<>>
    /\ ParseNotStarted

----------------------------------------------------------------------------
(* generate_ortools_schedule, one action per return *)

\* lines 60-61
ReturnNoInput ==
    /\ pc = "ready"
    /\ (residents = <<>> \/ n_days = 0)
    /\ pc' = "done"
    /\ status' = "no_input"
    /\ schedule' = <<>>
    /\ result' = DataFrameOnly
    /\ UNCHANGED <<inputs, solves, internVars, supVars, parseVars>>

\* lines 228-229
ReturnTooFewEligible ==
    /\ pc = "ready"
    /\ ~(residents = <<>> \/ n_days = 0)
    /\ TooFewEligible
    /\ pc' = "done"
    /\ status' = "too_few_eligible"
    /\ schedule' = <<>>
    /\ result' = DataFrameOnly
    /\ UNCHANGED <<inputs, solves, internVars, supVars, parseVars>>

\* lines 792-838: one solve; the solver reports a satisfying assignment when
\* there is one
Solve ==
    /\ pc = "ready"
    /\ ~(residents = <<>> \/ n_days = 0)
    /\ ~TooFewEligible
    /\ LET sols == Solutions
       IN  IF sols = {}
           THEN /\ status' = "infeasible"
                /\ schedule' = <<>>
                /\ result' = InfeasibleResult
           ELSE /\ status' = "solved"
                /\ \E a \in sols :
                    /\ schedule' = Rows(a)
                    /\ result' = SolvedResult(a)
    /\ solves' = solves + 1
    /\ pc' = "done"
    /\ UNCHANGED <<inputs, internVars, supVars, parseVars>>

Next ==
    \/ ReturnNoInput
    \/ ReturnTooFewEligible
    \/ Solve

Spec == Init /\ [][Next]_vars

\* Blocks with one row of previous_block_data: totals of 0 and of 100 and
\* more, for a resident of each PGY level
PrevTotalRows ==
    {<<[resident |-> name, total |-> t]>> :
        name \in {"A2", "P3", "X4", "I1"},
        t \in {0} \cup (cumulative_margin .. (cumulative_margin + MaxPrevExcess))}

PrevInputs ==
    [roster : {RosterFull, RosterSmall}, start_wd : 0 .. 6, n_days : 0 .. MaxPrevDays,
     previous_totals : {<<>>} \cup PrevTotalRows]

PrevInit ==
    /\ \E i \in PrevInputs :
        /\ residents = i.roster.names
        /\ pgy_levels = i.roster.levels
        /\ start_wd = i.start_wd
        /\ n_days = i.n_days
        /\ previous_totals = i.previous_totals
    /\ holidays = <<>>
    /\ hard_constraints = <<>>
    /\ block_transition = <<>>
    /\ pgy4_call_cap = NoCap
    /\ rotation_periods = <<>>
    /\ pc = "ready"
    /\ status = "none"
    /\ schedule = <<>>
    /\ result = NoResult
    /\ solves = 0
    /\ intern_cap = NoCap
    /\ intern_status = "none"
    /\ intern_col = <<>>
    /\ soft_constraints = <<>>
    /\ SupervisorNotStarted
    /\ ParseNotStarted

\* generate_ortools_schedule called with previous_block_data
PrevSpec == PrevInit /\ [][Next]_vars

----------------------------------------------------------------------------
(* optimize_intern_assignments, called on the rows of a solved block.  An   *)
(* intern assignment is a sequence x over the intern days: x[k] is the      *)
(* position in intern_names of the intern whose variable is 1 on the k-th   *)
(* intern day, 0 when every intern's variable is the constant 0 there.      *)

\* the elements of a set of numbers in increasing order
SortedSeq(S) ==
    [k \in 1 .. Cardinality(S) |->
        CHOOSE x \in S : Cardinality({y \in S : y < x}) = k - 1]

\* lines 879-880
intern_indices == {i \in DOMAIN pgy_levels : pgy_levels[i] = 1}

intern_names ==
    LET idx == SortedSeq(intern_indices)
    IN  [k \in DOMAIN idx |-> residents[idx[k]]]

\* lines 888-896: the days whose Call resident is PGY-3 or PGY-4, in order
intern_days ==
    SortedSeq({d \in Days :
                /\ d + 1 \in DOMAIN schedule
                /\ InRoster(schedule[d + 1].Call)
                /\ pgy_levels[IndexOf(schedule[d + 1].Call)] \in {3, 4}})

\* lines 907-918: date in hard_lookup[name]; the windows are looked up under
\* the roster name as it stands
InHardLookup(name, date) ==
    \E k \in DOMAIN hard_constraints :
        /\ hard_constraints[k].resident = name
        /\ hard_constraints[k].start <= date
        /\ date <= hard_constraints[k].end

\* lines 937-962: the interns whose variable on intern day `day` is not the
\* constant 0; one of them is chosen when there are any
eligible_interns(names, day) ==
    {i \in DOMAIN names : ~InHardLookup(names[i], day)}

\* mutant: three consecutive intern days are allowed
ConsecutiveOK_Dropped(x, k) == TRUE

\* lines 972-986: no intern on intern days k - 2, k - 1 and k
ConsecutiveOK(x, k) ==
    k >= 3 => ~(x[k] # 0 /\ x[k - 1] = x[k] /\ x[k - 2] = x[k])

\* lines 1046 and 1080
window_size_days == 28

\* lines 1043-1073: in the 28-day window that starts on an intern day, an
\* intern has at most intern_cap assignments; no constraint for a cap of 0.
\* k is the last intern day of the window looked at so far.
InternCapOK(days, x, k) ==
    (intern_cap # NoCap /\ intern_cap > 0 /\ x[k] # 0) =>
        \A s \in 1 .. k :
            days[k] <= days[s] + window_size_days - 1 =>
                Cardinality({j \in s .. k : x[j] = x[k]}) <= intern_cap

\* lines 1078-1105: at most 2 Saturdays per intern in such a window
SaturdayCapOK(days, x, k) ==
    (x[k] # 0 /\ Weekday(days[k]) = 5) =>
        \A s \in 1 .. k :
            days[k] <= days[s] + window_size_days - 1 =>
                Cardinality({j \in s .. k :
                                x[j] = x[k] /\ Weekday(days[j]) = 5}) <= 2

\* the assignments of the first k intern days that the constraints admit
RECURSIVE InternAssignments(_, _, _)
InternAssignments(names, days, k) ==
    IF k = 0 THEN {<<>>}
    ELSE LET eligible == eligible_interns(names, days[k])
             choices == IF eligible = {} THEN {0} ELSE eligible
         IN  UNION {
                {Append(p, c) :
                    c \in {y \in choices :
                            LET x == Append(p, y)
                            IN  /\ ConsecutiveOK(x, k)
                                /\ InternCapOK(days, x, k)
                                /\ SaturdayCapOK(days, x, k)}} :
                p \in InternAssignments(names, days, k - 1)}

\* lines 1159-1170: the Intern column for assignment x
InternColumn(names, days, x) ==
    [i \in 1 .. Len(schedule) |->
        IF \E k \in DOMAIN days : days[k] = i - 1 /\ x[k] # 0
        THEN names[x[CHOOSE k \in DOMAIN days : days[k] = i - 1]]
        ELSE "None"]

\* mutant: the frame comes back without its rows
NoInternColumn_NoRows == <<>>

NoInternColumn == [i \in 1 .. Len(schedule) |-> "None"]

stageOne == <<inputs, pc, status, schedule, result, solves>>

\* lines 881-886: no PGY-1 resident
InternNoInterns ==
    /\ pc = "done" /\ result.form = "triple" /\ intern_status = "none"
    /\ intern_indices = {}
    /\ intern_status' = "no_interns"
    /\ intern_col' = NoInternColumn
    /\ UNCHANGED <<stageOne, intern_cap, supVars, parseVars>>

\* lines 898-903: no day with a PGY-3 or PGY-4 resident on call
InternNoDays ==
    /\ pc = "done" /\ result.form = "triple" /\ intern_status = "none"
    /\ intern_indices # {}
    /\ intern_days = <<>>
    /\ intern_status' = "no_intern_days"
    /\ intern_col' = NoInternColumn
    /\ UNCHANGED <<stageOne, intern_cap, supVars, parseVars>>

\* lines 920-934: date in soft_violations_lookup[name]; only the requests
\* with priority "Non-call request" are kept
InSoftViolationsLookup(name, date) ==
    \E k \in DOMAIN soft_constraints :
        /\ soft_constraints[k].resident = name
        /\ soft_constraints[k].priority = "Non-call request"
        /\ soft_constraints[k].start <= date
        /\ date <= soft_constraints[k].end

\* lines 1032-1038: the variables of the intern days inside such a request.
\* Every assignment variable, the constant 0 of a blocked day included, is
\* an IntVar.
soft_violations(names, days) ==
    {v \in (DOMAIN days) \X (DOMAIN names) :
        InSoftViolationsLookup(names[v[2]], days[v[1]])}

\* lines 968-993: one penalty variable per intern and pair of neighbouring
\* intern days
consecutive_soft_penalties(names, days) ==
    (DOMAIN names) \X (1 .. (Len(days) - 1))

\* lines 1109-1147: any([...]) takes the truth value of the five comparisons
\* in turn.  With two or more interns the first, max_total - min_total != 0,
\* is true and no other is asked.  With one intern the three fairness terms
\* are the number 0, and soft_obj != 0 or consecutive_penalty_obj != 0 is a
\* comparison of a sum of variables as soon as there is a request variable
\* or a penalty variable: ortools does not give such a comparison a truth
\* value and raises NotImplementedError.
ObjectiveTestRaises(names, days) ==
    /\ Len(names) = 1
    /\ soft_violations(names, days) \cup consecutive_soft_penalties(names, days) # {}

\* lines 905-1210: build the model, solve once, fill the column; or raise at
\* line 1147 before the solve, returning nothing
OptimizeInterns ==
    /\ pc = "done" /\ result.form = "triple" /\ intern_status = "none"
    /\ intern_indices # {}
    /\ intern_days # <<>>
    /\ LET names == intern_names
           days == intern_days
           sols == InternAssignments(names, days, Len(days))
       IN  IF ObjectiveTestRaises(names, days)
           THEN /\ intern_status' = "raised"
                /\ intern_col' = intern_col
           ELSE IF sols = {}
           THEN /\ intern_status' = "failed"
                /\ intern_col' = NoInternColumn
           ELSE /\ intern_status' = "solved"
                /\ \E x \in sols : intern_col' = InternColumn(names, days, x)
    /\ UNCHANGED <<stageOne, intern_cap, supVars, parseVars>>

InternNext ==
    \/ InternNoInterns
    \/ InternNoDays
    \/ OptimizeInterns

\* A block of ten senior residents that repeats every two weeks and keeps
\* every rule of generate_ortools_schedule: Monday of week 1 first
PatternSeniors == <<"A2", "B2", "C2", "D2", "P3", "Q3", "R3", "S3", "X4", "Y4">>
PatternLevels == <<2, 2, 2, 2, 3, 3, 3, 3, 4, 4>>
PatternCall == <<"P3", "A2", "R3", "X4", "C2", "P3", "A2",
                 "R3", "C2", "P3", "X4", "A2", "R3", "C2">>
PatternBackup == <<"Q3", "B2", "S3", "Y4", "D2", "Q3", "B2",
                   "S3", "D2", "Q3", "Y4", "B2", "S3", "D2">>

\* the assignment of n days that starts `offset` days into the pattern
PatternAssignment(offset, n) ==
    [call |-> [k \in 1 .. n |-> IndexOf(PatternCall[((offset + k - 1) % 14) + 1])],
     backup |-> [k \in 1 .. n |-> IndexOf(PatternBackup[((offset + k - 1) % 14) + 1])]]

\* lines 200-296 and 780-790: assignment a of the whole block keeps every
\* hard rule, i.e. it is one the solver may report
HardRulesHold(a) ==
    /\ Pgy4CapOK(a.call)
    /\ \A d \in Days :
        /\ <<a.call[d + 1], a.backup[d + 1]>> \in DayPairs(d)
        /\ Q4SpacingOK(a.call, a.backup, d)
        /\ Q3SpacingOK(a.call, a.backup, d)

\* the interns of the roster; the name "J1 " carries a trailing blank
InternRosters == {<<>>, <<"I1">>, <<"I1", "J1">>, <<"J1 ">>}

\* windows of interns, under the stripped names the app keeps them by
InternHardEntries ==
    {e \in [resident : {"I1", "J1"}, start : 0 .. 3, end : 0 .. 3] : e.start <= e.end}

InternCaps == {NoCap} \cup (0 .. MaxInternCap)

\* short blocks, from every weekday
InternShortInputs ==
    [offset : 0 .. 6, n_days : 1 .. MaxInternBlock, interns : InternRosters,
     hard_constraints : {<<>>} \cup {<<e>> : e \in InternHardEntries},
     intern_cap : InternCaps,
     rotation_periods : {<<>>}]

\* blocks one day longer than the cap's window, with two interns, one away
\* for most of the block and the other for all of it, and with or without
\* one rotation range that spans the block
InternLongInputs ==
    [offset : 0 .. 6, n_days : {window_size_days + 1}, interns : {<<"I1", "J1">>},
     hard_constraints :
        {<<e, [resident |-> "J1", start |-> 0, end |-> window_size_days]>> :
            e \in [resident : {"I1"}, start : 1 .. 3,
                   end : (window_size_days - 3) .. (window_size_days - 1)]},
     intern_cap : InternCaps,
     rotation_periods :
        {<<>>, <<[switch_date |-> 0, rotation_name |-> "R1"],
                 [switch_date |-> window_size_days + 1, rotation_name |-> "R2"]>>}]

\* blocks of the same length that start on a Saturday, with two interns free
\* on every day
InternSaturdayInputs ==
    [offset : {5}, n_days : {window_size_days + 1}, interns : {<<"I1", "J1">>},
     hard_constraints : {<<>>},
     intern_cap : {NoCap},
     rotation_periods :
        {<<>>, <<[switch_date |-> 0, rotation_name |-> "R1"],
                 [switch_date |-> window_size_days + 1, rotation_name |-> "R2"]>>}]

InternInputs == InternShortInputs \cup InternLongInputs \cup InternSaturdayInputs

\* the state after generate_ortools_schedule returned a solved block
InternInit ==
    /\ \E i \in InternInputs :
        /\ residents = PatternSeniors \o i.interns
        /\ pgy_levels = PatternLevels \o [k \in 1 .. Len(i.interns) |-> 1]
        /\ start_wd = i.offset % 7
        /\ n_days = i.n_days
        /\ holidays = <<>>
        /\ hard_constraints = i.hard_constraints
        /\ block_transition = <<>>
        /\ pgy4_call_cap = NoCap
        /\ rotation_periods = i.rotation_periods
        /\ intern_cap = i.intern_cap
        /\ LET a == PatternAssignment(i.offset, i.n_days)
           IN  /\ HardRulesHold(a)
               /\ schedule = Rows(a)
               /\ result = SolvedResult(a)
    /\ pc = "done"
    /\ status = "solved"
    /\ solves = 1
    /\ intern_status = "none"
    /\ intern_col = <<>>
    /\ soft_constraints = <<>>
    /\ SupervisorNotStarted
    /\ previous_totals = <<>>
    /\ ParseNotStarted

InternSpec == InternInit /\ [][InternNext]_vars

----------------------------------------------------------------------------
(* assign_supervisors, one action per way through the body of its loop.     *)
(* prev_supervisor is written by the code and never read; it is left out.   *)

\* lines 1235-1236
supervisor_indices == {i \in DOMAIN pgy_levels : pgy_levels[i] \in {3, 4}}

supervisor_names ==
    LET idx == SortedSeq(supervisor_indices)
    IN  [k \in DOMAIN idx |-> residents[idx[k]]]

InSupervisorNames(name) == \E k \in DOMAIN supervisor_names : supervisor_names[k] = name

\* line 1233
holiday_dates == {holidays[i].date : i \in DOMAIN holidays}

\* lines 1246-1258: date in soft_lookup[name]; only the requests with
\* priority "Non-call request" are kept
InSoftLookup(name, date) ==
    \E k \in DOMAIN soft_constraints :
        /\ soft_constraints[k].resident = name
        /\ soft_constraints[k].priority = "Non-call request"
        /\ soft_constraints[k].start <= date
        /\ date <= soft_constraints[k].end

\* lines 1267-1270 and 1287-1290: the PGY level of a Call value, 0 for None
call_pgy(name) == IF InRoster(name) THEN pgy_levels[IndexOf(name)] ELSE 0

\* the row the loop is at
SupRowAt == schedule[sup_row + 1]

\* mutant: holidays are not passed over
SkipSundayHoliday_SundayOnly(row) == Weekday(row.Date) = 6

\* line 1272: the row is passed over
SkipSundayHoliday(row) == Weekday(row.Date) = 6 \/ row.Date \in holiday_dates

\* mutant: a Non-call request on the Friday does not keep the next row's
\* Call resident from being taken
FridayTakesNext_IgnoresSoft(i) ==
    /\ Weekday(schedule[i].Date) = 4
    /\ i + 1 <= Len(schedule)
    /\ \E k \in DOMAIN residents :
            /\ residents[k] = schedule[i + 1].Call
            /\ pgy_levels[k] \in {3, 4}
            /\ ~\E h \in DOMAIN hard_constraints :
                    /\ hard_constraints[h].resident = residents[k]
                    /\ hard_constraints[h].start <= schedule[i].Date
                    /\ schedule[i].Date <= hard_constraints[h].end

\* lines 1282-1293: on a Friday the Call resident of the next row is taken
\* when there is a next row and that resident is a supervisor who has
\* neither a hard window nor a Non-call request on the Friday
FridayTakesNext(i) ==
    /\ Weekday(schedule[i].Date) = 4
    /\ i + 1 <= Len(schedule)
    /\ LET sat_call == schedule[i + 1].Call
       IN  /\ InSupervisorNames(sat_call)
           /\ call_pgy(sat_call) \in {3, 4}
           /\ ~InHardLookup(sat_call, schedule[i].Date)
           /\ ~InSoftLookup(sat_call, schedule[i].Date)

\* mutant: the Call resident of the row before may supervise
eligible_KeepsPrevCall(call, prev, date) ==
    {k \in DOMAIN supervisor_names :
        /\ supervisor_names[k] # call
        /\ ~InHardLookup(supervisor_names[k], date)}

\* line 1301: positions in supervisor_names of the eligible supervisors
eligible(call, prev, date) ==
    {k \in DOMAIN supervisor_names :
        /\ supervisor_names[k] # call
        /\ supervisor_names[k] # prev
        /\ ~InHardLookup(supervisor_names[k], date)}

\* lines 1303-1304
pool(call, prev, date) ==
    LET el == eligible(call, prev, date)
        eligible_no_soft == {k \in el : ~InSoftLookup(supervisor_names[k], date)}
    IN  IF eligible_no_soft # {} THEN eligible_no_soft ELSE el

\* mutant: ties go to the last of the supervisors with the fewest assignments
chosen_LastOnTies(P, counts) ==
    CHOOSE k \in P :
        \A j \in P :
            \/ counts[residents[SortedSeq(supervisor_indices)[k]]]
                    < counts[residents[SortedSeq(supervisor_indices)[j]]]
            \/ /\ counts[residents[SortedSeq(supervisor_indices)[k]]]
                    = counts[residents[SortedSeq(supervisor_indices)[j]]]
               /\ k >= j

\* lines 1307-1308: the sort by count is stable, pool[0] is the first of the
\* supervisors with the fewest assignments
chosen(P, counts) ==
    CHOOSE k \in P :
        \A j \in P :
            \/ counts[supervisor_names[k]] < counts[supervisor_names[j]]
            \/ counts[supervisor_names[k]] = counts[supervisor_names[j]] /\ k <= j

supInputs ==
    <<inputs, pc, status, schedule, result, solves, internVars, soft_constraints,
      parseVars>>

\* mutant: the pass does not wait for optimize_intern_assignments
SupStart_Early ==
    /\ sup_status = "none"
    /\ sup_status' = "running"
    /\ sup_row' = 0
    /\ sup_col' = [i \in 1 .. Len(schedule) |-> "None"]
    /\ supervisor_counts' =
            [name \in {residents[i] : i \in {j \in DOMAIN pgy_levels :
                                                pgy_levels[j] \in {3, 4}}} |-> 0]
    /\ prev_call' = "None"
    /\ UNCHANGED <<inputs, pc, status, schedule, result, solves, internVars,
                   soft_constraints, parse_val, parse_result>>

\* lines 1229-1262: copy the schedule that optimize_intern_assignments
\* returned, add an empty Supervisor column
SupStart ==
    /\ intern_status \notin {"none", "raised"}
    /\ sup_status = "none"
    /\ sup_status' = "running"
    /\ sup_row' = 0
    /\ sup_col' = [i \in 1 .. Len(schedule) |-> "None"]
    /\ supervisor_counts' =
            [name \in {supervisor_names[k] : k \in DOMAIN supervisor_names} |-> 0]
    /\ prev_call' = "None"
    /\ UNCHANGED supInputs

\* lines 1272-1275: a Sunday or a holiday
SupSkipSundayHoliday ==
    /\ sup_status = "running" /\ sup_row < Len(schedule)
    /\ SkipSundayHoliday(SupRowAt)
    /\ prev_call' = SupRowAt.Call
    /\ sup_row' = sup_row + 1
    /\ UNCHANGED <<supInputs, sup_status, sup_col, supervisor_counts>>

\* lines 1277-1280: the Call resident is not PGY-2
SupSkipNotPgy2 ==
    /\ sup_status = "running" /\ sup_row < Len(schedule)
    /\ ~SkipSundayHoliday(SupRowAt)
    /\ call_pgy(SupRowAt.Call) # 2
    /\ prev_call' = SupRowAt.Call
    /\ sup_row' = sup_row + 1
    /\ UNCHANGED <<supInputs, sup_status, sup_col, supervisor_counts>>

\* lines 1282-1298: the Friday path
SupFriday ==
    /\ sup_status = "running" /\ sup_row < Len(schedule)
    /\ ~SkipSundayHoliday(SupRowAt)
    /\ call_pgy(SupRowAt.Call) = 2
    /\ FridayTakesNext(sup_row + 1)
    /\ LET sat_call == schedule[sup_row + 2].Call
       IN  /\ sup_col' = [sup_col EXCEPT ![sup_row + 1] = sat_call]
           /\ supervisor_counts' = [supervisor_counts EXCEPT ![sat_call] = @ + 1]
    /\ prev_call' = SupRowAt.Call
    /\ sup_row' = sup_row + 1
    /\ UNCHANGED <<supInputs, sup_status>>

\* lines 1301-1311 and 1314: the general path with a supervisor in the pool
SupGeneral ==
    /\ sup_status = "running" /\ sup_row < Len(schedule)
    /\ ~SkipSundayHoliday(SupRowAt)
    /\ call_pgy(SupRowAt.Call) = 2
    /\ ~FridayTakesNext(sup_row + 1)
    /\ LET P == pool(SupRowAt.Call, prev_call, SupRowAt.Date)
       IN  /\ P # {}
           /\ LET name == supervisor_names[chosen(P, supervisor_counts)]
              IN  /\ sup_col' = [sup_col EXCEPT ![sup_row + 1] = name]
                  /\ supervisor_counts' = [supervisor_counts EXCEPT ![name] = @ + 1]
    /\ prev_call' = SupRowAt.Call
    /\ sup_row' = sup_row + 1
    /\ UNCHANGED <<supInputs, sup_status>>

\* lines 1312-1314: the general path with an empty pool
SupUnsupervised ==
    /\ sup_status = "running" /\ sup_row < Len(schedule)
    /\ ~SkipSundayHoliday(SupRowAt)
    /\ call_pgy(SupRowAt.Call) = 2
    /\ ~FridayTakesNext(sup_row + 1)
    /\ pool(SupRowAt.Call, prev_call, SupRowAt.Date) = {}
    /\ prev_call' = SupRowAt.Call
    /\ sup_row' = sup_row + 1
    /\ UNCHANGED <<supInputs, sup_status, sup_col, supervisor_counts>>

\* line 1315
SupReturn ==
    /\ sup_status = "running" /\ sup_row = Len(schedule)
    /\ sup_status' = "done"
    /\ UNCHANGED <<supInputs, sup_row, sup_col, supervisor_counts, prev_call>>

SupNext ==
    \/ SupStart
    \/ SupSkipSundayHoliday
    \/ SupSkipNotPgy2
    \/ SupFriday
    \/ SupGeneral
    \/ SupUnsupervised
    \/ SupReturn

\* Rosters for calls of assign_supervisors on its own; the last name of
\* SupRosterBlank carries a trailing blank
SupRoster3 == [names |-> <<"A2", "B2", "P3", "Q3", "X4">>, levels |-> <<2, 2, 3, 3, 4>>]
SupRoster2 == [names |-> <<"A2", "B2", "P3", "X4">>, levels |-> <<2, 2, 3, 4>>]
SupRosterBlank == [names |-> <<"A2", "B2", "P3", "X4 ">>, levels |-> <<2, 2, 3, 4>>]
SupRoster4 == [names |-> <<"A2", "B2", "C2", "D2", "P3", "Q3", "X4">>,
               levels |-> <<2, 2, 2, 2, 3, 3, 4>>]

\* engine.py:265-273: in a schedule that generate_ortools_schedule returns,
\* the one producer of the schedules the handler passes on (app.py:1431), no
\* resident is on call twice within 3 days
CallsSpaced(calls) ==
    \A j \in DOMAIN calls : \A k \in DOMAIN calls :
        (j < k /\ k - j <= 3) => calls[j] # calls[k]

\* the last name of a roster
LastName(roster) == roster.names[Len(roster.names)]

\* windows and requests of one or two days at the start of the schedule,
\* under the stripped names the app keeps them by
SupHardEntries ==
    {e \in [resident : {"P3", "X4"}, start : 0 .. 1, end : 0 .. 1] : e.start <= e.end}

SupSoftEntries ==
    {e \in [resident : {"P3", "X4"}, start : 0 .. 1, end : 0 .. 1,
            priority : {"Non-call request", "Rotation/Lecture"}] : e.start <= e.end}

\* schedules with any of four Call values per row, "Z9" being on no roster
SupPlainInputs ==
    UNION {[roster : {SupRoster3}, start_wd : 0 .. 6, n_days : {n},
            calls : [1 .. n -> {"A2", "P3", "X4", "Z9"}],
            holidays : {<<>>}, hard_constraints : {<<>>}, soft_constraints : {<<>>},
            intern : {"None"}] : n \in 1 .. MaxSupDays}

\* Monday to Thursday (and beyond) with PGY-2 residents on call
SupFairInputs ==
    [roster : {SupRoster4}, start_wd : {0}, n_days : {MaxSupDays + 1},
     calls : [1 .. (MaxSupDays + 1) -> {"A2", "B2", "C2", "D2"}],
     holidays : {<<>>}, hard_constraints : {<<>>}, soft_constraints : {<<>>},
     intern : {"None"}]

\* Tuesday to Saturday (and beyond) with residents of every level on call
SupWeekInputs ==
    [roster : {SupRoster4}, start_wd : {1}, n_days : {MaxSupDays + 2},
     calls : [1 .. (MaxSupDays + 2) -> {"A2", "B2", "P3", "Q3", "X4"}],
     holidays : {<<>>}, hard_constraints : {<<>>}, soft_constraints : {<<>>},
     intern : {"None"}]

\* schedules that start on a Thursday or Friday, with one hard window
SupHardInputs ==
    UNION {UNION {[roster : {r}, start_wd : {3, 4}, n_days : {n},
                   calls : [1 .. n -> {"A2", "B2", LastName(r)}],
                   holidays : {<<>>},
                   hard_constraints : {<<e>> : e \in SupHardEntries},
                   soft_constraints : {<<>>},
                   intern : {"None"}] : n \in 2 .. MaxSupDays} :
           r \in {SupRoster3, SupRosterBlank}}

\* the same with one soft request
SupSoftInputs ==
    UNION {UNION {[roster : {r}, start_wd : {3, 4}, n_days : {n},
                   calls : [1 .. n -> {"A2", "P3", "X4"}],
                   holidays : {<<>>},
                   hard_constraints : {<<>>},
                   soft_constraints : {<<e>> : e \in SupSoftEntries},
                   intern : {"None"}] : n \in 2 .. MaxSupDays} :
           r \in {SupRoster3, SupRoster2}}

\* one or two days with a holiday on one of them, with and without interns
SupHolidayInputs ==
    UNION {[roster : {SupRoster3}, start_wd : 0 .. 6, n_days : {n},
            calls : [1 .. n -> {"A2", "B2", "X4"}],
            holidays : {<<[date |-> d, call |-> "A2", backup |-> "P3"]>> : d \in 0 .. 1},
            hard_constraints : {<<>>}, soft_constraints : {<<>>},
            intern : {"None", "I1"}] : n \in 1 .. 2}

\* the explored schedules: those of the families above in which the calls
\* are spaced as generate_ortools_schedule spaces them
SupInputs ==
    {i \in SupPlainInputs \cup SupFairInputs \cup SupWeekInputs \cup SupHardInputs
            \cup SupSoftInputs \cup SupHolidayInputs : CallsSpaced(i.calls)}

\* the state when assign_supervisors is called with a schedule that carries
\* an Intern column
SupInit ==
    /\ \E i \in SupInputs :
        /\ residents = i.roster.names
        /\ pgy_levels = i.roster.levels
        /\ start_wd = i.start_wd
        /\ n_days = i.n_days
        /\ holidays = i.holidays
        /\ hard_constraints = i.hard_constraints
        /\ soft_constraints = i.soft_constraints
        /\ schedule = [k \in 1 .. i.n_days |->
                        [Date |-> k - 1, Call |-> i.calls[k], Backup |-> "B2"]]
        /\ intern_col = [k \in 1 .. i.n_days |->
                            IF call_pgy(i.calls[k]) \in {3, 4} THEN i.intern ELSE "None"]
    /\ block_transition = <<>>
    /\ pgy4_call_cap = NoCap
    /\ rotation_periods = <<>>
    /\ pc = "done"
    /\ status = "solved"
    /\ result = NoResult
    /\ solves = 1
    /\ intern_cap = NoCap
    /\ intern_status = "solved"
    /\ SupervisorNotStarted
    /\ previous_totals = <<>>
    /\ ParseNotStarted

SupervisorSpec == SupInit /\ [][SupNext]_vars

----------------------------------------------------------------------------
(* The "Generate Schedule" handler of the app: the three stages in a row    *)

\* app.py:37: the cap the number input holds when it is left alone
intern_call_cap == 4

\* a roster without a PGY-3 or PGY-4 resident
RosterJuniors == [names |-> <<"A2", "B2", "I1">>, levels |-> <<2, 2, 1>>]

\* app.py:34: the PGY-4 call cap is the value of a number input, at least 0
\* and 2 when it is left alone; the handler never passes None
AppCaps == {0, 2}

AppInputs ==
    [roster : Rosters \cup {RosterJuniors}, start_wd : 0 .. 6, n_days : 0 .. MaxAppDays,
     holidays : {<<>>}, hard_constraints : {<<>>}, block_transition : {<<>>},
     pgy4_call_cap : AppCaps,
     rotation_periods : {<<>>}]

\* the state when the button is pressed
AppInit ==
    /\ \E i \in AppInputs :
        /\ residents = i.roster.names
        /\ pgy_levels = i.roster.levels
        /\ start_wd = i.start_wd
        /\ n_days = i.n_days
        /\ holidays = i.holidays
        /\ hard_constraints = i.hard_constraints
        /\ block_transition = i.block_transition
        /\ pgy4_call_cap = i.pgy4_call_cap
        /\ rotation_periods = i.rotation_periods
    /\ pc = "ready"
    /\ status = "none"
    /\ schedule = <<>>
    /\ result = NoResult
    /\ solves = 0
    /\ intern_cap = intern_call_cap
    /\ intern_status = "none"
    /\ intern_col = <<>>
    /\ soft_constraints = <<>>
    /\ SupervisorNotStarted
    /\ previous_totals = <<>>
    /\ ParseNotStarted

\* app.py:1416 and 1424, engine.py:885 and 891: the three names take the
\* three column labels of a data frame that came back on its own, so
\* optimize_intern_assignments is called with the text "Date" for a schedule
\* and raises AttributeError on its first use of it (copy() without interns,
\* iterrows() with)
InternGivenLabel ==
    /\ pc = "done" /\ result.form = "dataframe" /\ intern_status = "none"
    /\ intern_status' = "raised"
    /\ intern_col' = intern_col
    /\ UNCHANGED <<stageOne, intern_cap, supVars, parseVars>>

\* app.py:1424: an exception of optimize_intern_assignments ends the handler;
\* assign_supervisors is not called and nothing is stored
HandlerRaises ==
    /\ pc = "done"
    /\ intern_status = "raised"
    /\ pc' = "raised"
    /\ UNCHANGED <<inputs, status, schedule, result, solves, internVars, supVars, parseVars>>

AppNext ==
    \/ ReturnNoInput
    \/ ReturnTooFewEligible
    \/ Solve
    \/ InternGivenLabel
    \/ HandlerRaises
    \/ InternNoInterns
    \/ InternNoDays
    \/ OptimizeInterns
    \/ SupStart
    \/ SupSkipSundayHoliday
    \/ SupSkipNotPgy2
    \/ SupFriday
    \/ SupGeneral
    \/ SupUnsupervised
    \/ SupReturn

AppSpec == AppInit /\ [][AppNext]_vars

----------------------------------------------------------------------------
(* parse_date.  A calendar date is [kind |-> "date", y, m, d].  A string is *)
(* [kind |-> "str", form, y, m, d, tail]: form "legacy" is the text          *)
(* 'datetime.date(y, m, d)', form "iso" the text 'yyyy-mm-dd', form "us"     *)
(* the text 'mm/dd/yyyy', form "words" the text 'not a date'; tail is text   *)
(* that follows it.  None is [kind |-> "None"].                              *)

IsLeap(y) == (y % 4 = 0 /\ y % 100 # 0) \/ y % 400 = 0

DaysInMonth(y, m) ==
    CASE m = 2 -> IF IsLeap(y) THEN 29 ELSE 28
      [] m \in {4, 6, 9, 11} -> 30
      [] OTHER -> 31

\* datetime.date(y, m, d) does not raise
ValidDate(y, m, d) ==
    /\ 1 <= y /\ y <= 9999
    /\ 1 <= m /\ m <= 12
    /\ 1 <= d /\ d <= DaysInMonth(y, m)

dt_date(y, m, d) == [kind |-> "date", y |-> y, m |-> m, d |-> d]

\* D.isoformat() and repr(D)
isoformat(D) == [kind |-> "str", form |-> "iso", y |-> D.y, m |-> D.m, d |-> D.d, tail |-> ""]
repr(D) == [kind |-> "str", form |-> "legacy", y |-> D.y, m |-> D.m, d |-> D.d, tail |-> ""]

Returned(D) == [ok |-> TRUE, date |-> D]
Raised == [ok |-> FALSE, error |-> "ValueError"]

\* line 22: re.match looks for the pattern at the start of the text only
LegacyMatch(val) == val.kind = "str" /\ val.form = "legacy"

\* line 27: datetime.fromisoformat(val) does not raise
FromIsoFormat(val) ==
    val.kind = "str" /\ val.form = "iso" /\ val.tail = "" /\ ValidDate(val.y, val.m, val.d)

\* line 32: pd.to_datetime(val).date() does not raise; of the explored
\* values that neither of the first two branches takes, pandas reads the
\* 'mm/dd/yyyy' texts of calendar dates
ToDatetime(val) ==
    val.kind = "str" /\ val.form = "us" /\ val.tail = "" /\ ValidDate(val.y, val.m, val.d)

\* mutant: no pandas fallback
parse_date_NoFallback(val) ==
    IF val.kind = "date" THEN [ok |-> TRUE, date |-> val]
    ELSE IF val.kind = "str" /\ val.form = "legacy"
         THEN IF 1 <= val.m /\ val.m <= 12 /\ 1 <= val.d /\ val.d <= 28
              THEN [ok |-> TRUE,
                    date |-> [kind |-> "date", y |-> val.y, m |-> val.m, d |-> val.d]]
              ELSE [ok |-> FALSE, error |-> "ValueError"]
         ELSE IF val.kind = "str" /\ val.form = "iso" /\ val.tail = ""
                    /\ 1 <= val.m /\ val.m <= 12 /\ 1 <= val.d /\ val.d <= 28
              THEN [ok |-> TRUE,
                    date |-> [kind |-> "date", y |-> val.y, m |-> val.m, d |-> val.d]]
              ELSE [ok |-> FALSE, error |-> "ValueError"]

\* lines 17-34
parse_date(val) ==
    IF val.kind = "date" THEN Returned(val)
    ELSE IF LegacyMatch(val)
         THEN IF ValidDate(val.y, val.m, val.d)
              THEN Returned(dt_date(val.y, val.m, val.d))
              ELSE Raised
         ELSE IF FromIsoFormat(val) THEN Returned(dt_date(val.y, val.m, val.d))
              ELSE IF ToDatetime(val) THEN Returned(dt_date(val.y, val.m, val.d))
                   ELSE Raised

\* the explored values; the ISO-8601 texts are reached by Reparse
ParseTriples ==
    [y : (MaxParseYear - 1) .. MaxParseYear, m : {1, 2, 12, 13}, d : {1, 28, 29, 30, 31, 32}]

ParseDates == {dt_date(t.y, t.m, t.d) : t \in {u \in ParseTriples : ValidDate(u.y, u.m, u.d)}}

ParseValues ==
    ParseDates
    \cup {[kind |-> "str", form |-> "legacy", y |-> t.y, m |-> t.m, d |-> t.d, tail |-> x] :
            t \in ParseTriples, x \in {"", " x"}}
    \cup {[kind |-> "str", form |-> "us", y |-> D.y, m |-> D.m, d |-> D.d, tail |-> ""] :
            D \in ParseDates}
    \cup {[kind |-> "str", form |-> "words", y |-> 0, m |-> 0, d |-> 0, tail |-> ""]}
    \cup {[kind |-> "None"]}

\* no schedule is being generated
NothingRequested ==
    /\ residents = <<>> /\ pgy_levels = <<>>
    /\ start_wd = 0 /\ n_days = 0
    /\ holidays = <<>> /\ hard_constraints = <<>> /\ block_transition = <<>>
    /\ pgy4_call_cap = NoCap /\ rotation_periods = <<>> /\ previous_totals = <<>>
    /\ pc = "ready" /\ status = "none" /\ schedule = <<>> /\ result = NoResult
    /\ solves = 0
    /\ intern_cap = NoCap /\ intern_status = "none" /\ intern_col = <<>>
    /\ soft_constraints = <<>>
    /\ SupervisorNotStarted

ParseInit ==
    /\ NothingRequested
    /\ parse_val \in ParseValues
    /\ parse_result = NotParsed

notParse == <<inputs, pc, status, schedule, result, solves, internVars, supVars>>

\* parse_date(parse_val)
Parse ==
    /\ parse_val.kind # "none"
    /\ parse_result = NotParsed
    /\ parse_result' = parse_date(parse_val)
    /\ UNCHANGED <<notParse, parse_val>>

\* parse_date applied to the date it returned, or to one of that date's texts
Reparse ==
    /\ parse_result.ok
    /\ \E val \in {parse_result.date, isoformat(parse_result.date), repr(parse_result.date)} :
        /\ parse_val' = val
        /\ parse_result' = parse_date(val)
    /\ UNCHANGED notParse

ParseNext ==
    \/ Parse
    \/ Reparse

ParseSpec == ParseInit /\ [][ParseNext]_vars

----------------------------------------------------------------------------
(* Properties of the returned schedule *)

Solved == pc = "done" /\ status = "solved"

\* PGY level of a roster name
PgyOf(name) == pgy_levels[IndexOf(name)]

\* the returned row of block day d
Row(d) == schedule[d + 1]

Abs(x) == IF x < 0 THEN 0 - x ELSE x

\* day d lies in window e or on its buffer day
InWindowOrBuffer(e, d) == (e.start <= d /\ d <= e.end) \/ d = e.start - 1

\* C1: in every schedule returned on solver success the Call and the Backup
\* resident differ on every day of the block, holiday days included.
C1_CallDiffersFromBackup ==
    Solved => \A d \in Days : Row(d).Call # Row(d).Backup

\* a solved block that contains a holiday pinning two roster residents
C1_Witness ==
    /\ Solved
    /\ \E d \in HolidayDates \cap Days :
        InRoster(holiday_map(d).call) /\ InRoster(holiday_map(d).backup)

\* C2: on every day that is not a recorded holiday both roles have a PGY
\* level in the weekday's allowed set: Sun {2}, Mon {3}, Tue {2}, Wed {2,3},
\* Thu {3,4}, Fri {2}, Sat {3}.
C2_WeekdayEligibility ==
    Solved =>
        \A d \in Days \ HolidayDates :
            LET wd == Weekday(d)
                allowed == IF wd = 6 THEN {2}          \* Sunday
                           ELSE IF wd = 0 THEN {3}     \* Monday
                           ELSE IF wd = 1 THEN {2}     \* Tuesday
                           ELSE IF wd = 2 THEN {2, 3}  \* Wednesday
                           ELSE IF wd = 3 THEN {3, 4}  \* Thursday
                           ELSE IF wd = 4 THEN {2}     \* Friday
                           ELSE {3}                    \* Saturday
            IN  PgyOf(Row(d).Call) \in allowed /\ PgyOf(Row(d).Backup) \in allowed

\* a solved block of full length next to a holiday whose pinned call
\* resident would not be eligible on that weekday
C2_Witness ==
    /\ Solved
    /\ n_days = MaxDays
    /\ Days \ HolidayDates # {}
    /\ \E d \in HolidayDates \cap Days :
        PgyOf(Row(d).Call) \notin weekday_pgy(Weekday(d))

\* C3: on every non-holiday day the Call and the Backup resident have the
\* same PGY level.
C3_PgyLevelsMatch ==
    Solved =>
        \A d \in Days \ HolidayDates : PgyOf(Row(d).Call) = PgyOf(Row(d).Backup)

\* a solved block with a non-holiday Wednesday or Thursday, the days with two
\* allowed levels
C3_Witness ==
    /\ Solved
    /\ \E d \in Days \ HolidayDates :
        /\ Weekday(d) \in {2, 3}
        /\ \E i, j \in allowed_indices(d) : pgy_levels[i] # pgy_levels[j]

\* C4: a resident is neither Call nor Backup on a non-holiday day inside one
\* of their hard-constraint windows or on its buffer day; with a window over
\* the whole block (and no holiday in the block) the resident is in no row.
C4_HardWindowsRespected ==
    Solved =>
        \A k \in DOMAIN hard_constraints :
            LET e == hard_constraints[k]
                name == Strip(e.resident)
            IN  /\ \A d \in Days \ HolidayDates :
                    InWindowOrBuffer(e, d) =>
                        Row(d).Call # name /\ Row(d).Backup # name
                /\ (e.start <= 0 /\ e.end >= n_days - 1 /\ HolidayDates \cap Days = {}) =>
                        \A d \in Days : Row(d).Call # name /\ Row(d).Backup # name

\* a solved block in which a resident is eligible by PGY both on the buffer
\* day and on a day inside their window
C4_Witness ==
    /\ Solved
    /\ \E k \in DOMAIN hard_constraints :
        LET e == hard_constraints[k]
            name == Strip(e.resident)
        IN  /\ InRoster(name)
            /\ (e.start - 1) \in Days \ HolidayDates
            /\ IndexOf(name) \in allowed_indices(e.start - 1)
            /\ \E d \in Days \ HolidayDates :
                e.start <= d /\ d <= e.end /\ IndexOf(name) \in allowed_indices(d)

\* C5: for block days d1 < d2 no resident holds call/call, call/backup or
\* backup/call when d2 - d1 <= 3, nor backup/backup when d2 - d1 <= 2.
C5_SpacingWithinBlock ==
    Solved =>
        \A d1 \in Days : \A d2 \in Days :
            d1 < d2 =>
                /\ (d2 - d1 <= 3) =>
                    /\ Row(d1).Call # Row(d2).Call
                    /\ Row(d1).Call # Row(d2).Backup
                    /\ Row(d1).Backup # Row(d2).Call
                /\ (d2 - d1 <= 2) => Row(d1).Backup # Row(d2).Backup

\* a solved block in which a resident is Backup again after exactly 3 days,
\* the shortest distance the rule leaves open
C5_Witness ==
    /\ Solved
    /\ \E d1 \in Days : \E d2 \in Days :
        d2 - d1 = 3 /\ Row(d1).Backup = Row(d2).Backup

\* the residents named by a supplied transition day, "" being none
SameResident(rowName, transName) ==
    transName # "" /\ Strip(rowName) = Strip(transName)

\* C6 as stated: for every supplied transition day t and block day d with
\* 1 <= d - t <= 3 the resident who was Call on t is neither Call nor Backup
\* on d and the one who was Backup on t is not Call on d; with
\* 1 <= d - t <= 2 the one who was Backup on t is not Backup on d.
C6_Original ==
    Solved =>
        \A k \in DOMAIN block_transition : \A d \in Days :
            LET t == block_transition[k]
            IN  /\ (1 <= d - t.date /\ d - t.date <= 3) =>
                    /\ ~SameResident(Row(d).Call, t.call)
                    /\ ~SameResident(Row(d).Backup, t.call)
                    /\ ~SameResident(Row(d).Call, t.backup)
                /\ (1 <= d - t.date /\ d - t.date <= 2) =>
                    ~SameResident(Row(d).Backup, t.backup)

\* C6, what the code does instead: the rule is kept for the transition days
\* supplied with both a Call and a Backup name, and for the names among
\* them that equal a roster name with its surrounding blanks removed; a
\* transition day with one name missing, or a name that carries the blanks
\* of the roster name, constrains nothing.
C6_SpacingAcrossBlocks ==
    Solved =>
        \A t \in transition_assignments : \A d \in Days :
            /\ (1 <= d - t.date /\ d - t.date <= 3) =>
                /\ Strip(Row(d).Call) # t.call
                /\ Strip(Row(d).Backup) # t.call
                /\ Strip(Row(d).Call) # t.backup
            /\ (1 <= d - t.date /\ d - t.date <= 2) => Strip(Row(d).Backup) # t.backup

\* a solved block in which the resident who was Call on the supplied
\* transition day, named there as on the roster, holds a role two days later
\* while the transition day's Backup resident holds none
C6_Witness ==
    /\ Solved
    /\ \E t \in transition_assignments : \E d \in Days :
        /\ d - t.date = 2
        /\ t.call # Strip(t.call)
        /\ InRoster(t.call)
        /\ Row(d).Call = t.call \/ Row(d).Backup = t.call
        /\ Row(d).Call # t.backup /\ Row(d).Backup # t.backup

\* C7: on every holiday date of the block whose two named residents are in
\* the roster the schedule's Call and Backup are exactly those residents.
C7_HolidayPinsHold ==
    Solved =>
        \A d \in HolidayDates \cap Days :
            LET h == holiday_map(d)
            IN  (InRoster(h.call) /\ InRoster(h.backup)) =>
                    Row(d).Call = h.call /\ Row(d).Backup = h.backup

\* a solved block with a holiday whose pinned call resident is inside one of
\* their own windows (or on its buffer day) and whose pinned backup is of a
\* level the weekday does not allow
C7_Witness ==
    /\ Solved
    /\ \E d \in HolidayDates \cap Days :
        LET h == holiday_map(d)
        IN  /\ InRoster(h.call) /\ InRoster(h.backup)
            /\ \E k \in DOMAIN hard_constraints :
                /\ Strip(hard_constraints[k].resident) = h.call
                /\ InWindowOrBuffer(hard_constraints[k], d)
            /\ PgyOf(h.backup) \notin weekday_pgy(Weekday(d))

\* Within-block spacing as C8 describes it: no Q4/Q3 constraint relates a
\* holiday day to another day.
SpacingOK_HolidayExempt(call, backup, d) ==
    d \notin HolidayDates =>
        /\ \A offset \in 1 .. 3 :
            LET d1 == d - offset
            IN  (d1 >= 0 /\ d1 \notin HolidayDates) =>
                    /\ call[d1 + 1] # call[d + 1]
                    /\ call[d1 + 1] # backup[d + 1]
                    /\ backup[d1 + 1] # call[d + 1]
        /\ \A offset \in 1 .. 2 :
            LET d1 == d - offset
            IN  (d1 >= 0 /\ d1 \notin HolidayDates) => backup[d1 + 1] # backup[d + 1]

\* the assignments the constraint model would admit with that spacing rule
RECURSIVE Assignments_HolidayExempt(_)
Assignments_HolidayExempt(k) ==
    IF k = 0 THEN {[call |-> <<>>, backup |-> <<>>]}
    ELSE LET pairs == DayPairs(k - 1)
         IN  UNION {
                {[call |-> Append(p.call, q[1]), backup |-> Append(p.backup, q[2])] :
                    q \in {x \in pairs :
                            LET call == Append(p.call, x[1])
                                backup == Append(p.backup, x[2])
                            IN  /\ SpacingOK_HolidayExempt(call, backup, k - 1)
                                /\ Pgy4CapOK(call)}} :
                p \in Assignments_HolidayExempt(k - 1)}

\* C8 as stated: spacing is not enforced around a holiday's pinned
\* assignment, so a block whose holidays pin roster residents and that can be
\* scheduled with the holiday days left out of the spacing rule is never
\* reported infeasible.
C8_Original ==
    (/\ pc = "done"
     /\ status = "infeasible"
     /\ \A d \in HolidayDates :
            InRoster(holiday_map(d).call) /\ InRoster(holiday_map(d).backup))
        => Assignments_HolidayExempt(n_days) = {}

\* C8 amended: the Q4/Q3 spacing rule is enforced between a holiday day's
\* assignment and the assignments on the days within 3 days before or after
\* it (so a holiday pin can make a block infeasible).
C8_SpacingAroundHolidays ==
    Solved =>
        \A h \in HolidayDates \cap Days : \A d \in Days :
            d # h =>
                /\ (Abs(d - h) <= 3) =>
                    /\ Row(h).Call # Row(d).Call
                    /\ Row(h).Call # Row(d).Backup
                    /\ Row(h).Backup # Row(d).Call
                /\ (Abs(d - h) <= 2) => Row(h).Backup # Row(d).Backup

\* a solved block with a holiday whose pinned call resident is eligible by
\* PGY on a non-holiday day at most 3 days away
C8_Witness ==
    /\ Solved
    /\ \E h \in HolidayDates \cap Days : \E d \in Days \ HolidayDates :
        /\ Abs(d - h) <= 3
        /\ InRoster(holiday_map(h).call)
        /\ Row(h).Call = holiday_map(h).call
        /\ IndexOf(holiday_map(h).call) \in allowed_indices(d)

\* resident `name` in a role on day d obeys the rules of a non-holiday day
DefaultRulesHold(d, name) ==
    /\ PgyOf(name) \in weekday_pgy(Weekday(d))
    /\ PgyOf(Row(d).Call) = PgyOf(Row(d).Backup)
    /\ \A k \in DOMAIN hard_constraints :
        (Strip(hard_constraints[k].resident) = name) =>
            ~InWindowOrBuffer(hard_constraints[k], d)

\* C9 as stated: a role whose holiday names a resident outside the roster is
\* scheduled under the rules of a non-holiday day (allowed PGY set, PGY
\* matching, hard-constraint windows), unless generation fails.
C9_Original ==
    Solved =>
        \A d \in HolidayDates \cap Days :
            LET h == holiday_map(d)
            IN  /\ ~InRoster(h.call) => DefaultRulesHold(d, Row(d).Call)
                /\ ~InRoster(h.backup) => DefaultRulesHold(d, Row(d).Backup)

\* C9, what the code does instead: on a holiday date naming a resident
\* outside the roster, the role named in the roster (if any) stays pinned and
\* the other role is filled by some roster resident different from it; no
\* other rule of a non-holiday day is applied to the date.
C9_UnknownNameLeavesRoleFree ==
    Solved =>
        \A d \in HolidayDates \cap Days :
            LET h == holiday_map(d)
            IN  (~InRoster(h.call) \/ ~InRoster(h.backup)) =>
                    /\ InRoster(h.call) => Row(d).Call = h.call
                    /\ InRoster(h.backup) => Row(d).Backup = h.backup
                    /\ InRoster(Row(d).Call) /\ InRoster(Row(d).Backup)
                    /\ Row(d).Call # Row(d).Backup

\* a solved block in which the role left free by an unknown holiday name is
\* held by a resident the weekday does not allow, next to a pinned other role
C9_Witness ==
    /\ Solved
    /\ \E d \in HolidayDates \cap Days :
        LET h == holiday_map(d)
        IN  /\ ~InRoster(h.call)
            /\ InRoster(h.backup)
            /\ PgyOf(Row(d).Call) \notin weekday_pgy(Weekday(d))

\* C10: with a PGY-4 call cap supplied, no PGY-4 resident is Call on more
\* days of the block than the cap, holiday days included.
C10_Pgy4CallCap ==
    (Solved /\ pgy4_call_cap # NoCap) =>
        \A r \in DOMAIN residents :
            pgy_levels[r] = 4 =>
                Cardinality({d \in Days : Row(d).Call = residents[r]}) <= pgy4_call_cap

\* a solved block under a cap in which a holiday pins a PGY-4 resident on
\* call, using the cap up
C10_Witness ==
    /\ Solved
    /\ pgy4_call_cap # NoCap
    /\ \E d \in HolidayDates \cap Days :
        /\ PgyOf(Row(d).Call) = 4
        /\ Cardinality({x \in Days : Row(x).Call = Row(d).Call}) = pgy4_call_cap

\* C11 as stated: when a non-holiday day has fewer than two eligible
\* residents, generation ends without a solve and returns what an infeasible
\* solve returns: an empty schedule, a zero count per PGY-2 resident and no
\* objective score.
C11_Original ==
    (pc = "done" /\ status = "too_few_eligible") =>
        /\ solves = 0
        /\ schedule = <<>>
        /\ result.form = "triple"
        /\ result.golden.kind = "flat"
        /\ \A res \in DOMAIN result.golden.counts : result.golden.counts[res] = 0
        /\ result.objective = "None"

\* C11, what the code does instead: generation ends without a solve and
\* returns an empty data frame on its own, with no count structure and no
\* score beside it.
C11_BareFrameReturned ==
    (pc = "done" /\ status = "too_few_eligible") =>
        /\ solves = 0
        /\ schedule = <<>>
        /\ result.form = "dataframe"

\* generation ended on a non-holiday day with fewer than two eligible residents
C11_Witness ==
    /\ pc = "done"
    /\ status = "too_few_eligible"
    /\ \E d \in Days \ HolidayDates :
        Cardinality({r \in DOMAIN residents :
                        pgy_levels[r] \in weekday_pgy(Weekday(d))}) < 2

\* C12: when no assignment satisfies the hard rules the function returns an
\* empty schedule, a count of zero for exactly the PGY-2 residents and no
\* objective score, after one solve.
C12_InfeasibleResult ==
    (pc = "done" /\ status = "infeasible") =>
        /\ schedule = <<>>
        /\ result.form = "triple"
        /\ result.golden.kind = "flat"
        /\ DOMAIN result.golden.counts =
                {residents[r] : r \in {x \in DOMAIN residents : pgy_levels[x] = 2}}
        /\ \A res \in DOMAIN result.golden.counts : result.golden.counts[res] = 0
        /\ result.objective = "None"
        /\ solves = 1

\* an infeasible block of a roster that has PGY-2 and other residents
C12_Witness ==
    /\ pc = "done"
    /\ status = "infeasible"
    /\ \E r \in DOMAIN residents : pgy_levels[r] = 2
    /\ \E r \in DOMAIN residents : pgy_levels[r] # 2

\* the 28-day block of two PGY-2, two PGY-3 and two PGY-4 residents with no
\* holidays, constraints or transition data
IsExample ==
    /\ residents = RosterExample.names
    /\ pgy_levels = RosterExample.levels
    /\ n_days = ExampleDays
    /\ holidays = <<>>
    /\ hard_constraints = <<>>
    /\ block_transition = <<>>
    /\ pgy4_call_cap = NoCap
    /\ rotation_periods = <<>>

\* C13 as stated: for that block generation succeeds and every day has a
\* Call and a Backup of matching, weekday-eligible PGY level.
C13_Original ==
    (pc = "done" /\ IsExample) =>
        /\ status = "solved"
        /\ \A d \in Days :
            /\ PgyOf(Row(d).Call) = PgyOf(Row(d).Backup)
            /\ PgyOf(Row(d).Call) \in weekday_pgy(Weekday(d))

\* C13 amended: for that block the solver finds no assignment and the
\* schedule returned is empty, from whichever weekday the block starts.
C13_ExampleInfeasible ==
    (pc = "done" /\ IsExample) => (status = "infeasible" /\ schedule = <<>>)

\* the example block was handed to the solver and reported infeasible
C13_Witness ==
    /\ pc = "done"
    /\ IsExample
    /\ solves = 1
    /\ status = "infeasible"

\* the rotation ranges that hold block day d
RangesHolding(d) ==
    {i \in DOMAIN rotation_ranges :
        rotation_ranges[i].start_date <= d /\ d <= rotation_ranges[i].end_date}

SwitchDates == {rotation_periods[i].switch_date : i \in DOMAIN rotation_periods}

\* C14 as stated: every block day on or after the earliest switch date lies
\* in exactly one rotation range, the last period reaching to the block end,
\* also when one period is supplied.
C14_Original ==
    (pc = "done" /\ rotation_periods # <<>>) =>
        \A d \in Days :
            (\A sd \in SwitchDates : \E e \in SwitchDates : e <= sd /\ e <= d) =>
                Cardinality(RangesHolding(d)) = 1

\* C14, what the code does instead: the ranges are ordered and disjoint and
\* reach from the earliest switch date to the day before the latest one; the
\* days from the latest switch date on lie in no range.
C14_RangesEndAtLastSwitch ==
    (pc = "done" /\ rotation_periods # <<>>) =>
        /\ \A d \in Days :
            Cardinality(RangesHolding(d)) =
                IF /\ \E sd \in SwitchDates : sd <= d
                   /\ \E sd \in SwitchDates : d < sd
                THEN 1 ELSE 0
        /\ \A i, j \in DOMAIN rotation_ranges :
            i < j => rotation_ranges[i].end_date < rotation_ranges[j].start_date

\* periods supplied out of date order, giving a range of at least one day,
\* with a block day after the last switch date
C14_Witness ==
    /\ pc = "done"
    /\ Len(rotation_periods) >= 2
    /\ rotation_periods[1].switch_date > rotation_periods[2].switch_date
    /\ \E i \in DOMAIN rotation_ranges :
        rotation_ranges[i].start_date <= rotation_ranges[i].end_date
    /\ \E d \in Days : \A sd \in SwitchDates : sd <= d

\* name holds Call or Backup on block day d
Holds(name, d) == Row(d).Call = name \/ Row(d).Backup = name

\* the Fridays of the block on which name holds neither role on the Friday,
\* the Saturday after it or the Sunday after it
GoldenFridays(name) ==
    {f \in Days :
        /\ Weekday(f) = 4
        /\ \A d \in {f, f + 1, f + 2} \cap Days : ~Holds(name, d)}

Pgy2Names == {residents[r] : r \in {x \in DOMAIN residents : pgy_levels[x] = 2}}

RECURSIVE SumOver(_, _)
SumOver(f, S) ==
    IF S = {} THEN 0
    ELSE LET x == CHOOSE y \in S : TRUE IN f[x] + SumOver(f, S \ {x})

\* the count reported for a resident: its entry, or the sum of its entries
\* under the rotation names
ReportedGolden(name) ==
    IF result.golden.kind = "flat" THEN result.golden.counts[name]
    ELSE SumOver([rot \in DOMAIN result.golden.counts |->
                    result.golden.counts[rot][name]],
                 DOMAIN result.golden.counts)

\* C15 as stated: on success the count reported for each PGY-2 resident is
\* the number of golden Fridays of the block for that resident, and no other
\* resident is in the structure.
C15_Original ==
    Solved =>
        /\ IF result.golden.kind = "flat"
           THEN DOMAIN result.golden.counts = Pgy2Names
           ELSE \A rot \in DOMAIN result.golden.counts :
                    DOMAIN result.golden.counts[rot] = Pgy2Names
        /\ \A name \in Pgy2Names :
            ReportedGolden(name) = Cardinality(GoldenFridays(name))

\* C15, what the code does instead: without rotation ranges the count is the
\* number of golden Fridays of the block; with rotation ranges the count
\* under a rotation name is the number of golden Fridays dated inside a range
\* of that name, and a golden Friday outside every range is counted nowhere.
C15_GoldenCounts ==
    Solved =>
        IF result.golden.kind = "flat"
        THEN /\ DOMAIN result.golden.counts = Pgy2Names
             /\ \A name \in Pgy2Names :
                    result.golden.counts[name] = Cardinality(GoldenFridays(name))
        ELSE \A rot \in DOMAIN result.golden.counts :
                /\ DOMAIN result.golden.counts[rot] = Pgy2Names
                /\ \A name \in Pgy2Names :
                    result.golden.counts[rot][name] =
                        Cardinality({f \in GoldenFridays(name) :
                            \E i \in RangesHolding(f) : rotation_ranges[i].name = rot})

\* a solved block Friday..Sunday in which a PGY-2 resident is free on the
\* Friday but on duty on the Sunday and is reported no golden weekend
C15_Witness ==
    /\ Solved
    /\ \E f \in Days :
        /\ Weekday(f) = 4
        /\ f + 2 \in Days
        /\ \E name \in Pgy2Names :
            /\ ~Holds(name, f) /\ Holds(name, f + 2)
            /\ ReportedGolden(name) = 0

\* C16 as stated: the structure is keyed by rotation name whenever at least
\* one rotation period was supplied, and is flat only when none was.
C16_Original ==
    Solved => (result.golden.kind = "by_rotation" <=> Len(rotation_periods) >= 1)

\* C16, what the code does instead: the structure is keyed by rotation name
\* when two or more rotation periods were supplied and is flat for one
\* period as for none.
C16_KeyedFromTwoPeriods ==
    Solved => (result.golden.kind = "by_rotation" <=> Len(rotation_periods) >= 2)

\* a solved block for which exactly one rotation period was supplied
C16_Witness ==
    /\ Solved
    /\ Len(rotation_periods) = 1
    /\ result.golden.kind = "flat"

----------------------------------------------------------------------------
(* Properties of the intern stage *)

InternsSolved == intern_status = "solved"

\* the Call resident of day d is PGY-3 or PGY-4
SeniorCall(d) ==
    \E i \in DOMAIN residents :
        residents[i] = schedule[d + 1].Call /\ pgy_levels[i] \in {3, 4}

InternRosterNames == {residents[i] : i \in intern_indices}

\* date d lies inside a hard window of the resident called name, names
\* being compared as generate_ortools_schedule compares them
Blocked(name, d) ==
    \E k \in DOMAIN hard_constraints :
        /\ Strip(hard_constraints[k].resident) = Strip(name)
        /\ hard_constraints[k].start <= d
        /\ d <= hard_constraints[k].end

\* C17 as stated: after a successful intern stage a row carries an intern
\* exactly when its Call resident is PGY-3 or PGY-4 and at least one intern
\* has no hard window covering the date; the intern is one PGY-1 resident.
C17_Original ==
    InternsSolved =>
        \A d \in Days :
            /\ (intern_col[d + 1] # "None") <=>
                    (SeniorCall(d) /\ \E name \in InternRosterNames : ~Blocked(name, d))
            /\ intern_col[d + 1] # "None" => intern_col[d + 1] \in InternRosterNames

\* C17, what the code does instead: a row carries an intern exactly when its
\* Call resident is PGY-3 or PGY-4 and at least one intern has no window
\* filed under exactly their roster name that covers the date; the intern is
\* one PGY-1 resident.
C17_InternByRawName ==
    InternsSolved =>
        \A d \in Days :
            /\ (intern_col[d + 1] # "None") <=>
                    (SeniorCall(d) /\ \E name \in InternRosterNames : ~InHardLookup(name, d))
            /\ intern_col[d + 1] # "None" => intern_col[d + 1] \in InternRosterNames

\* a PGY-3/4-call row on which every intern is inside a hard window and
\* which carries an intern all the same
C17_Witness ==
    /\ InternsSolved
    /\ \E d \in Days :
        /\ SeniorCall(d)
        /\ \A name \in InternRosterNames : Blocked(name, d)
        /\ intern_col[d + 1] # "None"

\* C18 as stated: no intern is assigned on a date inside one of that
\* intern's hard windows.
C18_Original ==
    InternsSolved =>
        \A d \in Days : \A name \in InternRosterNames :
            intern_col[d + 1] = name => ~Blocked(name, d)

\* C18, what the code does instead: no intern is assigned on a date inside a
\* window filed under exactly their roster name.
C18_NoInternInRawWindow ==
    InternsSolved =>
        \A d \in Days : \A name \in InternRosterNames :
            intern_col[d + 1] = name => ~InHardLookup(name, d)

\* an intern whose roster name ends in a blank is assigned on a date inside
\* the window filed under the name without the blank
C18_Witness ==
    /\ InternsSolved
    /\ \E d \in Days : \E k \in DOMAIN hard_constraints :
        /\ intern_col[d + 1] \in InternRosterNames
        /\ intern_col[d + 1] # hard_constraints[k].resident
        /\ Strip(intern_col[d + 1]) = hard_constraints[k].resident
        /\ hard_constraints[k].start <= d
        /\ d <= hard_constraints[k].end

\* the intern of the k-th day with a PGY-3 or PGY-4 resident on call
InternOn(k) == intern_col[intern_days[k] + 1]

\* C19: in a solved intern stage no intern is assigned on three consecutive
\* days of the ordered sequence of PGY-3/4-call days.
C19_NoThreeConsecutive ==
    InternsSolved =>
        \A k \in 3 .. Len(intern_days) :
            ~(InternOn(k) # "None" /\ InternOn(k - 1) = InternOn(k)
                                   /\ InternOn(k - 2) = InternOn(k))

\* an intern assigned on exactly two consecutive PGY-3/4-call days of a
\* block with at least three such days
C19_Witness ==
    /\ InternsSolved
    /\ Len(intern_days) >= 3
    /\ \E k \in 2 .. Len(intern_days) :
        /\ InternOn(k) # "None"
        /\ InternOn(k - 1) = InternOn(k)
        /\ k >= 3 => InternOn(k - 2) # InternOn(k)
        /\ k < Len(intern_days) => InternOn(k + 1) # InternOn(k)

\* the number of days of S on which the Intern column holds name
InternCount(name, S) ==
    Cardinality({d \in S \cap Days : intern_col[d + 1] = name})

\* line 1045: a cap is one above 0; None and 0 stand for no cap
CapSupplied == intern_cap # NoCap /\ intern_cap > 0

\* C20 as stated: with a cap supplied no intern has more than cap
\* assignments within one rotation range when rotation periods are supplied,
\* and within any 28-day window when they are not.
C20_Original ==
    (InternsSolved /\ CapSupplied) =>
        \A name \in InternRosterNames :
            IF rotation_periods # <<>>
            THEN \A j \in DOMAIN rotation_ranges :
                    InternCount(name, rotation_ranges[j].start_date ..
                                      rotation_ranges[j].end_date) <= intern_cap
            ELSE \A s \in Days :
                    InternCount(name, s .. (s + window_size_days - 1)) <= intern_cap

\* C20, what the code does instead: with a cap supplied no intern has more
\* than cap assignments within any 28-day window, with or without rotation
\* periods.
C20_CapPer28DayWindow ==
    (InternsSolved /\ CapSupplied) =>
        \A name \in InternRosterNames : \A s \in Days :
            InternCount(name, s .. (s + window_size_days - 1)) <= intern_cap

\* a rotation range longer than 28 days in which an intern has more
\* assignments than a cap above 0
C20_Witness ==
    /\ InternsSolved
    /\ CapSupplied
    /\ \E j \in DOMAIN rotation_ranges : \E name \in InternRosterNames :
        /\ rotation_ranges[j].end_date - rotation_ranges[j].start_date >= window_size_days
        /\ InternCount(name, rotation_ranges[j].start_date ..
                             rotation_ranges[j].end_date) > intern_cap

\* the number of Saturdays of S on which the Intern column holds name
SaturdayCount(name, S) ==
    Cardinality({d \in S \cap Days : Weekday(d) = 5 /\ intern_col[d + 1] = name})

\* C21 as stated: no intern has more than 2 Saturdays within one rotation
\* range when rotation periods are supplied, and within any 28 consecutive
\* days when they are not, with or without an intern cap.
C21_Original ==
    InternsSolved =>
        \A name \in InternRosterNames :
            IF rotation_periods # <<>>
            THEN \A j \in DOMAIN rotation_ranges :
                    SaturdayCount(name, rotation_ranges[j].start_date ..
                                        rotation_ranges[j].end_date) <= 2
            ELSE \A s \in Days :
                    SaturdayCount(name, s .. (s + window_size_days - 1)) <= 2

\* C21, what the code does instead: no intern has more than 2 Saturdays
\* within any 28 consecutive days, with or without rotation periods and with
\* or without an intern cap.
C21_SaturdaysPer28DayWindow ==
    InternsSolved =>
        \A name \in InternRosterNames : \A s \in Days :
            SaturdayCount(name, s .. (s + window_size_days - 1)) <= 2

\* a rotation range longer than 28 days in which an intern has three
\* Saturdays
C21_Witness ==
    /\ InternsSolved
    /\ \E j \in DOMAIN rotation_ranges : \E name \in InternRosterNames :
        /\ rotation_ranges[j].end_date - rotation_ranges[j].start_date >= window_size_days
        /\ SaturdayCount(name, rotation_ranges[j].start_date ..
                               rotation_ranges[j].end_date) > 2

----------------------------------------------------------------------------
(* Properties of the supervisor pass *)

\* the rows the loop of assign_supervisors has been through
SupDone == IF sup_status = "none" THEN {} ELSE 1 .. sup_row

Supervised(i) == sup_col[i] # "None"

\* C22: a row has a supervisor only when its Call resident is PGY-2 and its
\* date is neither a Sunday nor a holiday; rows with a PGY-3/4 Call resident
\* or a Call name outside the roster, Sundays and holidays have none.
C22_SupervisorOnlyOnPgy2Rows ==
    sup_status # "none" =>
        \A i \in DOMAIN sup_col :
            Supervised(i) =>
                /\ \E k \in DOMAIN residents :
                        residents[k] = schedule[i].Call /\ pgy_levels[k] = 2
                /\ Weekday(schedule[i].Date) # 6
                /\ \A h \in DOMAIN holidays : holidays[h].date # schedule[i].Date

\* a finished pass with a supervised row and with a PGY-2-call row on a
\* holiday that is not a Sunday and has no supervisor
C22_Witness ==
    /\ sup_status = "done"
    /\ \E i \in DOMAIN sup_col : Supervised(i)
    /\ \E i \in DOMAIN sup_col :
        /\ call_pgy(schedule[i].Call) = 2
        /\ Weekday(schedule[i].Date) # 6
        /\ schedule[i].Date \in holiday_dates
        /\ ~Supervised(i)

\* the Call value of the row before row i
PrevCallOf(i) == IF i = 1 THEN "None" ELSE schedule[i - 1].Call

\* supervisor assignments of name on the rows before row i
CountBefore(name, i) == Cardinality({j \in 1 .. (i - 1) : sup_col[j] = name})

\* C23: on every schedule passed to assign_supervisors, no supervised row
\* is supervised by the Call resident of the row before it, on the Friday
\* path as on the general path.
C23_SupervisorNotPrevCall ==
    sup_status # "none" =>
        \A i \in DOMAIN sup_col : Supervised(i) => sup_col[i] # PrevCallOf(i)

\* a finished pass with a Friday supervised by the next row's Call resident
\* after a row with a PGY-3/4 resident on call, and with a general-path row
\* that the Call resident of the row before would have supervised, having
\* no more assignments than the supervisor and an earlier place on the roster
C23_Witness ==
    /\ sup_status = "done"
    /\ \E i \in DOMAIN sup_col :
        /\ i >= 2
        /\ FridayTakesNext(i) /\ Supervised(i)
        /\ call_pgy(PrevCallOf(i)) \in {3, 4}
    /\ \E i \in DOMAIN sup_col :
        /\ i >= 2
        /\ ~FridayTakesNext(i) /\ Supervised(i)
        /\ call_pgy(PrevCallOf(i)) \in {3, 4}
        /\ ~InHardLookup(PrevCallOf(i), schedule[i].Date)
        /\ ~InSoftLookup(PrevCallOf(i), schedule[i].Date)
        /\ CountBefore(PrevCallOf(i), i) <= CountBefore(sup_col[i], i)
        /\ IndexOf(PrevCallOf(i)) < IndexOf(sup_col[i])

\* C24 as stated: every supervisor is a PGY-3 or PGY-4 roster resident, is
\* not the row's Call resident and has no hard window covering the row's
\* date.
C24_Original ==
    sup_status # "none" =>
        \A i \in DOMAIN sup_col :
            Supervised(i) =>
                /\ \E k \in DOMAIN residents :
                        residents[k] = sup_col[i] /\ pgy_levels[k] \in {3, 4}
                /\ sup_col[i] # schedule[i].Call
                /\ ~Blocked(sup_col[i], schedule[i].Date)

\* C24, what the code does instead: every supervisor is a PGY-3 or PGY-4
\* roster resident, is not the row's Call resident and has no window filed
\* under exactly their roster name that covers the row's date.
C24_SupervisorByRawName ==
    sup_status # "none" =>
        \A i \in DOMAIN sup_col :
            Supervised(i) =>
                /\ \E k \in DOMAIN residents :
                        residents[k] = sup_col[i] /\ pgy_levels[k] \in {3, 4}
                /\ sup_col[i] # schedule[i].Call
                /\ ~InHardLookup(sup_col[i], schedule[i].Date)

\* a supervisor whose roster name ends in a blank supervises on a date
\* inside the window filed under the name without the blank
C24_Witness ==
    /\ sup_status = "done"
    /\ \E i \in DOMAIN sup_col : \E h \in DOMAIN hard_constraints :
        /\ Supervised(i)
        /\ sup_col[i] # hard_constraints[h].resident
        /\ Strip(sup_col[i]) = hard_constraints[h].resident
        /\ hard_constraints[h].start <= schedule[i].Date
        /\ schedule[i].Date <= hard_constraints[h].end

\* the roster positions of the PGY-3/4 residents who may supervise row i:
\* not its Call resident, not the Call resident of the row before, no hard
\* window on its date
EligibleAt(i) ==
    {k \in DOMAIN residents :
        /\ pgy_levels[k] \in {3, 4}
        /\ residents[k] # schedule[i].Call
        /\ residents[k] # PrevCallOf(i)
        /\ ~InHardLookup(residents[k], schedule[i].Date)}

NoRequestAt(i) == {k \in EligibleAt(i) : ~InSoftLookup(residents[k], schedule[i].Date)}

PoolAt(i) == IF NoRequestAt(i) # {} THEN NoRequestAt(i) ELSE EligibleAt(i)

\* the least-loaded selection for row i: "None" for an empty pool
LeastLoadedAt(i) ==
    IF PoolAt(i) = {} THEN "None"
    ELSE residents[CHOOSE k \in PoolAt(i) :
            \A j \in PoolAt(i) :
                \/ CountBefore(residents[k], i) < CountBefore(residents[j], i)
                \/ CountBefore(residents[k], i) = CountBefore(residents[j], i) /\ k <= j]

\* row i is a PGY-2-call row that is neither a Sunday nor a holiday
SupervisableRow(i) ==
    /\ call_pgy(schedule[i].Call) = 2
    /\ Weekday(schedule[i].Date) # 6
    /\ schedule[i].Date \notin holiday_dates

\* the next row's Call resident is PGY-3/4 and has neither a hard window nor
\* a Non-call request on the date of row i
NextCallFree(i) ==
    /\ i + 1 <= Len(schedule)
    /\ call_pgy(schedule[i + 1].Call) \in {3, 4}
    /\ ~InHardLookup(schedule[i + 1].Call, schedule[i].Date)
    /\ ~InSoftLookup(schedule[i + 1].Call, schedule[i].Date)

C26_WitnessAllRequested ==
    /\ sup_status = "done"
    /\ \E i \in DOMAIN sup_col :
        /\ SupervisableRow(i) /\ Weekday(schedule[i].Date) # 4
        /\ EligibleAt(i) # {} /\ NoRequestAt(i) = {}
        /\ Supervised(i)

----------------------------------------------------------------------------
(* Properties of the handler and of the stages as functions *)

\* optimize_intern_assignments, assign_supervisors has been called
InternStarted == intern_status # "none"
SupStarted == sup_status # "none"

\* optimize_intern_assignments has returned
InternReturned == intern_status \notin {"none", "raised"}

\* C27 as stated: the intern stage has started only if
\* generate_ortools_schedule has returned a schedule, and works on that
\* schedule; the supervisor pass has started only if the intern stage has
\* returned, and works on the schedule that carries the Intern column.
C27_Original ==
    /\ InternStarted =>
        /\ result.form = "triple" /\ solves = 1
        /\ InternReturned => Len(intern_col) = Len(schedule)
    /\ SupStarted =>
        /\ InternReturned
        /\ Len(sup_col) = Len(intern_col)

\* C27, what the code does instead: the stages start in the order backbone,
\* intern, supervisor, the supervisor pass only after the intern stage has
\* returned and on the schedule with the Intern column; the intern stage
\* works on the backbone's schedule when the backbone returned its triple,
\* and is started on a column label, on which it raises, when the backbone
\* returned a data frame on its own.
C27_StagesInOrder ==
    /\ InternStarted =>
        /\ pc \in {"done", "raised"}
        /\ result.form \in {"triple", "dataframe"}
        /\ result.form = "triple" => solves = 1
        /\ result.form = "dataframe" => (intern_status = "raised" /\ solves = 0)
        /\ InternReturned => Len(intern_col) = Len(schedule)
    /\ SupStarted =>
        /\ InternReturned
        /\ result.form = "triple"
        /\ Len(sup_col) = Len(intern_col)

\* the intern stage was started after generate_ortools_schedule stopped
\* before the solve and returned a data frame on its own, and raised
C27_Witness ==
    /\ status = "too_few_eligible"
    /\ result.form = "dataframe"
    /\ intern_status = "raised"
    /\ sup_status = "none"

\* a step of optimize_intern_assignments, of assign_supervisors
InternStep == intern_status = "none" /\ intern_status' # "none"
SupStep == sup_status' # sup_status \/ sup_row' # sup_row

\* C28: a step of the intern stage leaves the rows it was given as they are
\* and, when it returns, returns an Intern value for each of them; a step of
\* the supervisor pass leaves the rows and the Intern column as they are and
\* keeps a Supervisor value for each row.
C28_StagesKeepTheRows ==
    [][/\ InternStep =>
            /\ schedule' = schedule
            /\ intern_status' # "raised" => DOMAIN intern_col' = DOMAIN schedule
       /\ SupStep =>
            /\ schedule' = schedule
            /\ intern_col' = intern_col
            /\ DOMAIN sup_col' = DOMAIN schedule]_vars

\* both stages have returned on a block of two or more rows, whose Date,
\* Call and Backup values are the ones generate_ortools_schedule returned
\* and which carries an intern and a supervisor
C28_Witness ==
    /\ sup_status = "done"
    /\ intern_status = "solved"
    /\ Len(schedule) >= 2
    /\ \A i \in DOMAIN schedule :
        /\ schedule[i].Date = i - 1
        /\ InRoster(schedule[i].Call) /\ InRoster(schedule[i].Backup)
    /\ \E i \in DOMAIN schedule : intern_col[i] # "None" /\ sup_col[i] = "None"
    /\ \E i \in DOMAIN schedule : sup_col[i] # "None" /\ intern_col[i] = "None"

----------------------------------------------------------------------------
(* Properties of parse_date *)

Parsed == parse_result # NotParsed

\* the value is the ISO-8601 text or the legacy text of a calendar date
TextOfDate(val) ==
    /\ val.kind = "str"
    /\ val.form \in {"iso", "legacy"}
    /\ val.tail = ""
    /\ ValidDate(val.y, val.m, val.d)

\* a calendar date comes back unchanged, and the ISO-8601 text and the
\* legacy text of a calendar date D both give D
RoundTrips ==
    /\ parse_val.kind = "date" => parse_result = [ok |-> TRUE, date |-> parse_val]
    /\ TextOfDate(parse_val) =>
            parse_result = [ok |-> TRUE,
                            date |-> [kind |-> "date", y |-> parse_val.y,
                                      m |-> parse_val.m, d |-> parse_val.d]]

\* C29 as stated: parse_date round-trips, and a value that is neither a
\* calendar date nor the ISO-8601 text nor the legacy text of one raises.
C29_Original ==
    Parsed =>
        /\ RoundTrips
        /\ ~(parse_val.kind = "date" \/ TextOfDate(parse_val)) => ~parse_result.ok

\* C29, amended: parse_date round-trips; it raises exactly on the values
\* that are neither a calendar date, nor the ISO-8601 text of one, nor a text
\* that begins with the legacy text of one, nor a text pandas reads as a date.
C29_ParseDateRoundTrips ==
    Parsed =>
        /\ RoundTrips
        /\ ~parse_result.ok <=>
                ~(\/ parse_val.kind = "date"
                  \/ TextOfDate(parse_val)
                  \/ /\ parse_val.kind = "str" /\ parse_val.form = "legacy"
                     /\ ValidDate(parse_val.y, parse_val.m, parse_val.d)
                  \/ /\ parse_val.kind = "str" /\ parse_val.form = "us"
                     /\ ValidDate(parse_val.y, parse_val.m, parse_val.d))

\* the text '02/29/2024', which is none of the three forms, has been parsed
\* and gave 29 February 2024
C29_Witness ==
    /\ parse_val = [kind |-> "str", form |-> "us", y |-> 2024, m |-> 2, d |-> 29, tail |-> ""]
    /\ parse_result = [ok |-> TRUE, date |-> [kind |-> "date", y |-> 2024, m |-> 2, d |-> 29]]

----------------------------------------------------------------------------
(* Properties of the carried-over totals *)

SolverRan == pc = "done" /\ result.form = "triple"

\* the assignments that satisfy the hard rules
HardRuleSchedules == Assignments(n_days)

\* C30 as stated: whatever the carried-over totals, the schedules the solver
\* may return are the ones that satisfy the hard rules.
C30_Original ==
    SolverRan =>
        /\ Solutions = HardRuleSchedules
        /\ status = "infeasible" <=> HardRuleSchedules = {}

\* the days of a category on which the returned rows name the resident in
\* the column
ScheduleCount(name, column, cat) ==
    Cardinality({i \in DOMAIN schedule :
                    /\ Weekday(i - 1) \in CategoryDays(cat)
                    /\ IF column = "Call" THEN schedule[i].Call = name
                                          ELSE schedule[i].Backup = name})

\* C30, what the code does instead: carried-over totals of at most 100 leave
\* the schedules the solver may return as they are; a larger total of a
\* PGY-2, PGY-3 or PGY-4 resident of the roster keeps each of that resident's
\* in-block counts at or below n_days + 100 - total, and makes generation
\* fail when it is above n_days + 100.
C30_TotalsOver100Bind ==
    SolverRan =>
        /\ (\A k \in DOMAIN previous_totals : previous_totals[k].total <= 100) =>
                Solutions = HardRuleSchedules
        /\ \A k \in DOMAIN previous_totals : \A r \in DOMAIN residents :
            (residents[r] = previous_totals[k].resident /\ pgy_levels[r] \in {2, 3, 4}) =>
                /\ previous_totals[k].total > n_days + 100 => status = "infeasible"
                /\ status = "solved" =>
                    \A cat \in FairnessCategories(pgy_levels[r]) :
                        \A column \in {"Call", "Backup"} :
                            ScheduleCount(residents[r], column, cat)
                                <= n_days + 100 - previous_totals[k].total

\* generation failed on a block that has schedules satisfying the hard
\* rules, because of a carried-over total above 100
C30_Witness ==
    /\ SolverRan
    /\ status = "infeasible"
    /\ HardRuleSchedules # {}
    /\ \E k \in DOMAIN previous_totals : previous_totals[k].total > 100

====
